---------------------------- MODULE Spec2Model ----------------------------
(***************************************************************************)
(* The markdown parsing and indexing pipeline of scripts/api.js.           *)
(*                                                                         *)
(* Text is modelled character by character: a string is a sequence of      *)
(* one-character strings, and a markdown body is the sequence of its       *)
(* lines (what markdown.split('\n') returns), so that the regular          *)
(* expressions of the code are computed on the characters they read.       *)
(***************************************************************************)
EXTENDS Integers, Sequences, FiniteSets, TLC

(***************************************************************************)
(* Characters and strings.                                                 *)
(***************************************************************************)
UpperSeq ==
    << "A", "B", "C", "D", "E", "F", "G", "H", "I", "J", "K", "L", "M",
       "N", "O", "P", "Q", "R", "S", "T", "U", "V", "W", "X", "Y", "Z" >>

LowerSeq ==
    << "a", "b", "c", "d", "e", "f", "g", "h", "i", "j", "k", "l", "m",
       "n", "o", "p", "q", "r", "s", "t", "u", "v", "w", "x", "y", "z" >>

UpperSet == { UpperSeq[i] : i \in 1..26 }

LowerSet == { LowerSeq[i] : i \in 1..26 }

DigitSet == { "0", "1", "2", "3", "4", "5", "6", "7", "8", "9" }

\* \s of a JavaScript regular expression, on the characters the model uses.
SpaceSet == { " ", "\t", "\n" }

\* \w of a JavaScript regular expression.
WordSet == UpperSet \cup LowerSet \cup DigitSet \cup { "_" }

NL == "\n"

ToLowerChar(c) ==
    IF c \in UpperSet
    THEN LowerSeq[CHOOSE i \in 1..26 : UpperSeq[i] = c]
    ELSE c

\* String.prototype.toLowerCase
ToLower(s) == [i \in 1..Len(s) |-> ToLowerChar(s[i])]

\* s.startsWith(p, i - 1): p occurs in s at the 1-based position i.
StartsWithAt(s, p, i) ==
    /\ i >= 1
    /\ i + Len(p) - 1 <= Len(s)
    /\ \A k \in 1..Len(p) : s[i + k - 1] = p[k]

StartsWith(s, p) == StartsWithAt(s, p, 1)

\* String.prototype.includes
Includes(s, p) == \E i \in 1..(Len(s) - Len(p) + 1) : StartsWithAt(s, p, i)

\* s.slice(n): the characters after the first n.
Slice(s, n) == IF n >= Len(s) THEN << >> ELSE SubSeq(s, n + 1, Len(s))

\* String.prototype.trim
Trim(s) ==
    LET keep == { i \in 1..Len(s) : s[i] \notin SpaceSet }
    IN  IF keep = {} THEN << >>
        ELSE LET lo == CHOOSE i \in keep : \A j \in keep : i <= j
                 hi == CHOOSE i \in keep : \A j \in keep : i >= j
             IN  SubSeq(s, lo, hi)

\* Array.prototype.join('\n') on an array of strings.
RECURSIVE Join(_)
Join(ls) ==
    IF Len(ls) = 0 THEN << >>
    ELSE IF Len(ls) = 1 THEN ls[1]
    ELSE ls[1] \o << NL >> \o Join(Tail(ls))

\* The first position >= i where p occurs in s, or 0.
FirstAt(s, p, i) ==
    LET hits == { j \in i..(Len(s) - Len(p) + 1) : StartsWithAt(s, p, j) }
    IN  IF hits = {} THEN 0 ELSE CHOOSE j \in hits : \A k \in hits : j <= k

\* The backquote character (the lexer of TLA+ takes no backquote in a string).
Backtick == "backtick"

Fence == << Backtick, Backtick, Backtick >>

Plaintext == << "p", "l", "a", "i", "n", "t", "e", "x", "t" >>

(***************************************************************************)
(* Code blocks.                                                            *)
(***************************************************************************)
WTest == << "t", "e", "s", "t" >>

WExpect == << "e", "x", "p", "e", "c", "t" >>

WExample == << "e", "x", "a", "m", "p", "l", "e" >>

WConst == << "c", "o", "n", "s", "t" >>

WInterface == << "i", "n", "t", "e", "r", "f", "a", "c", "e" >>

WType == << "t", "y", "p", "e" >>

\* detectCodePurpose with the type rule checked first.
detectCodePurposeTypeFirst(code, language) ==
    LET lowerCode == ToLower(code)
    IN  IF Includes(lowerCode, WInterface) \/ Includes(lowerCode, WType)
        THEN "type-definition"
        ELSE IF Includes(lowerCode, WTest) \/ Includes(lowerCode, WExpect)
        THEN "test"
        ELSE IF Includes(lowerCode, WExample) \/ Includes(lowerCode, WConst)
        THEN "example"
        ELSE "implementation"

detectCodePurpose(code, language) ==
    LET lowerCode == ToLower(code)
    IN  IF Includes(lowerCode, WTest) \/ Includes(lowerCode, WExpect)
        THEN "test"
        ELSE IF Includes(lowerCode, WExample) \/ Includes(lowerCode, WConst)
        THEN "example"
        ELSE IF Includes(lowerCode, WInterface) \/ Includes(lowerCode, WType)
        THEN "type-definition"
        ELSE "implementation"

\* lines[i].slice(3).trim() || 'plaintext'
fenceLanguage(line) ==
    LET info == Trim(Slice(line, 3))
    IN  IF info = << >> THEN Plaintext ELSE info

\* The while loop of extractCodeBlocks and of extractCodeBlockFromLine: the
\* index of the first line at or after i that starts with a fence, or
\* Len(lines) + 1 when there is none.
RECURSIVE fenceEnd(_, _)
fenceEnd(lines, i) ==
    IF i <= Len(lines) /\ ~StartsWith(lines[i], Fence)
    THEN fenceEnd(lines, i + 1)
    ELSE i

\* codeLinesBetween that takes the closing fence line with the code.
codeLinesThrough(lines, open, close) ==
    SubSeq(lines, open + 1, IF close > Len(lines) THEN Len(lines) ELSE close)

codeLinesBetween(lines, open, close) ==
    IF close - 1 < open + 1 THEN << >> ELSE SubSeq(lines, open + 1, close - 1)

RECURSIVE extractCodeBlocksFrom(_, _, _)
extractCodeBlocksFrom(lines, i, codeBlocks) ==
    IF i > Len(lines) THEN codeBlocks
    ELSE IF StartsWith(lines[i], Fence)
    THEN LET close == fenceEnd(lines, i + 1)
             codeLines == codeLinesBetween(lines, i, close)
             code == Join(codeLines)
         IN  extractCodeBlocksFrom(lines, close + 1,
                 Append(codeBlocks,
                        [language |-> fenceLanguage(lines[i]),
                         code |-> code,
                         lineCount |-> Len(codeLines),
                         purpose |-> detectCodePurpose(code, fenceLanguage(lines[i]))]))
    ELSE extractCodeBlocksFrom(lines, i + 1, codeBlocks)

extractCodeBlocks(lines) == extractCodeBlocksFrom(lines, 1, << >>)

\* The result is a sequence holding the block, or the empty sequence for null.
extractCodeBlockFromLine(lines, startIndex) ==
    IF ~StartsWith(lines[startIndex], Fence) THEN << >>
    ELSE LET close == fenceEnd(lines, startIndex + 1)
             codeLines == codeLinesBetween(lines, startIndex, close)
         IN  << [language |-> fenceLanguage(lines[startIndex]),
                 code |-> Join(codeLines),
                 lineCount |-> Len(codeLines)] >>

(***************************************************************************)
(* Regular expressions of the section extractor.                           *)
(***************************************************************************)
\* The first position >= i of s holding a character of set, or Len(s) + 1.
RECURSIVE NextIn(_, _, _)
NextIn(s, i, set) ==
    IF i > Len(s) \/ s[i] \in set THEN i ELSE NextIn(s, i + 1, set)

\* The first position >= i of s holding a character outside set, or Len(s) + 1.
RECURSIVE NextNotIn(_, _, _)
NextNotIn(s, i, set) ==
    IF i > Len(s) \/ s[i] \notin set THEN i ELSE NextNotIn(s, i + 1, set)

\* headingMatch for /^(#+)\s+(.+)$/: no upper limit on the number of #.
headingMatchAnyDepth(line) ==
    LET n == NextNotIn(line, 1, {"#"}) - 1
        w == NextNotIn(line, n + 1, SpaceSet) - 1
    IN  IF n >= 1 /\ w >= n + 1 /\ Len(line) >= n + 2
        THEN << [level |-> n,
                 heading |-> IF w < Len(line)
                             THEN SubSeq(line, w + 1, Len(line))
                             ELSE SubSeq(line, Len(line), Len(line))] >>
        ELSE << >>

\* line.match(/^(#{1,6})\s+(.+)$/): the empty sequence when the line does not
\* match, else one record with the two groups (level is headingMatch[1].length).
headingMatch(line) ==
    LET n == NextNotIn(line, 1, {"#"}) - 1
        w == NextNotIn(line, n + 1, SpaceSet) - 1
    IN  IF n >= 1 /\ n <= 6 /\ w >= n + 1 /\ Len(line) >= n + 2
        THEN << [level |-> n,
                 heading |-> IF w < Len(line)
                             THEN SubSeq(line, w + 1, Len(line))
                             ELSE SubSeq(line, Len(line), Len(line))] >>
        ELSE << >>

\* s.replace(/\s+/g, '-')
RECURSIVE dashSpaces(_, _, _)
dashSpaces(s, i, out) ==
    IF i > Len(s) THEN out
    ELSE IF s[i] \in SpaceSet
    THEN dashSpaces(s, NextNotIn(s, i, SpaceSet), Append(out, "-"))
    ELSE dashSpaces(s, i + 1, Append(out, s[i]))

\* heading.toLowerCase().replace(/[^\w\s-]/g, '').replace(/\s+/g, '-')
headingId(heading) ==
    dashSpaces(SelectSeq(ToLower(heading),
                         LAMBDA c : c \in WordSet \cup SpaceSet \cup {"-"}),
               1, << >>)

\* text.replace(/```[\s\S]*?```/g, ''), from position i on.
RECURSIVE removeFencedFrom(_, _, _)
removeFencedFrom(text, i, out) ==
    LET open == FirstAt(text, Fence, i)
        close == IF open = 0 THEN 0 ELSE FirstAt(text, Fence, open + 3)
    IN  IF close = 0 THEN out \o Slice(text, i - 1)
        ELSE removeFencedFrom(text, close + 3,
                              out \o SubSeq(text, i, open - 1))

removeFenced(text) == removeFencedFrom(text, 1, << >>)

\* text.replace(/`([^`]+)`/g, '$1')
RECURSIVE removeInlineCode(_, _, _)
removeInlineCode(text, i, out) ==
    IF i > Len(text) THEN out
    ELSE LET e == NextIn(text, i + 1, {Backtick}) - 1
         IN  IF text[i] = Backtick /\ e >= i + 1 /\ e + 1 <= Len(text)
             THEN removeInlineCode(text, e + 2, out \o SubSeq(text, i + 1, e))
             ELSE removeInlineCode(text, i + 1, Append(out, text[i]))

\* A match of /\[([^\]]+)\]\(([^)]+)\)/ starting at position i of text: the
\* empty sequence, or one record with the two groups and the position after
\* the match.
linkAt(text, i) ==
    LET e == NextIn(text, i + 1, {"]"}) - 1
        f == NextIn(text, e + 3, {")"}) - 1
    IN  IF /\ i <= Len(text) /\ text[i] = "["
           /\ e >= i + 1 /\ e + 2 <= Len(text)
           /\ text[e + 1] = "]" /\ text[e + 2] = "("
           /\ f >= e + 3 /\ f + 1 <= Len(text)
        THEN << [text |-> SubSeq(text, i + 1, e),
                 url |-> SubSeq(text, e + 3, f),
                 next |-> f + 2] >>
        ELSE << >>

\* text.replace(/\[([^\]]+)\]\([^)]+\)/g, '$1')
RECURSIVE removeLinks(_, _, _)
removeLinks(text, i, out) ==
    IF i > Len(text) THEN out
    ELSE LET m == linkAt(text, i)
         IN  IF m # << >>
             THEN removeLinks(text, m[1].next, out \o m[1].text)
             ELSE removeLinks(text, i + 1, Append(out, text[i]))

EmphasisSet == { "*", "_", "~" }

\* text.replace(/[*_~]{1,2}([^*_~]+)[*_~]{1,2}/g, '$1'): one or two markers
\* followed by a run of other characters that a marker ends; a second closing
\* marker is consumed when there is one.
RECURSIVE removeEmphasis(_, _, _)
removeEmphasis(text, i, out) ==
    IF i > Len(text) THEN out
    ELSE LET b == IF i + 1 <= Len(text) /\ text[i + 1] \in EmphasisSet
                  THEN i + 2 ELSE i + 1
             e == NextIn(text, b, EmphasisSet) - 1
             c == IF e + 2 <= Len(text) /\ text[e + 2] \in EmphasisSet
                  THEN e + 3 ELSE e + 2
         IN  IF text[i] \in EmphasisSet /\ e >= b /\ e + 1 <= Len(text)
             THEN removeEmphasis(text, c, out \o SubSeq(text, b, e))
             ELSE removeEmphasis(text, i + 1, Append(out, text[i]))

\* text.replace(/^#{1,6}\s+/gm, ''): ^ matches at the start of the text and
\* after every line break of the text.
RECURSIVE removeHeadingMarks(_, _, _)
removeHeadingMarks(text, i, out) ==
    IF i > Len(text) THEN out
    ELSE LET n == NextNotIn(text, i, {"#"}) - i
             w == NextNotIn(text, i + n, SpaceSet)
         IN  IF /\ (i = 1 \/ text[i - 1] = NL)
                /\ n >= 1 /\ n <= 6 /\ w > i + n
             THEN removeHeadingMarks(text, w, out)
             ELSE removeHeadingMarks(text, i + 1, Append(out, text[i]))

stripMarkdown(text) ==
    Trim(removeHeadingMarks(
           removeEmphasis(
             removeLinks(
               removeInlineCode(removeFenced(text), 1, << >>),
               1, << >>),
             1, << >>),
           1, << >>))

\* line.match(/^[\s]*[-*+]\s+/) || line.match(/^[\s]*\d+\.\s+/)
listItemMatch(line) ==
    LET b == NextNotIn(line, 1, SpaceSet)
        d == NextNotIn(line, b, DigitSet)
    IN  \/ /\ b + 1 <= Len(line)
           /\ line[b] \in { "-", "*", "+" }
           /\ line[b + 1] \in SpaceSet
        \/ /\ d > b /\ d + 1 <= Len(line)
           /\ line[d] = "."
           /\ line[d + 1] \in SpaceSet

\* line.match(/\[([^\]]+)\]\(([^)]+)\)/g), each match as {text, url}.
RECURSIVE lineLinks(_, _, _)
lineLinks(line, i, out) ==
    IF i > Len(line) THEN out
    ELSE LET m == linkAt(line, i)
         IN  IF m # << >>
             THEN lineLinks(line, m[1].next,
                            Append(out, [text |-> m[1].text, url |-> m[1].url]))
             ELSE lineLinks(line, i + 1, out)

(***************************************************************************)
(* extractSections.  The line index i is 1-based, so lineNumber (i + 1 in  *)
(* the code, whose index is 0-based) is i.  The section being accumulated  *)
(* is a sequence of length 0 (null) or 1.                                  *)
(***************************************************************************)
\* closeSection that keeps the blank space around the content.
closeSectionUntrimmed(currentSection, currentContent) ==
    [currentSection EXCEPT !.content = Join(currentContent),
                           !.contentPlain = stripMarkdown(Join(currentContent))]

closeSection(currentSection, currentContent) ==
    LET content == Trim(Join(currentContent))
    IN  [currentSection EXCEPT !.content = content,
                               !.contentPlain = stripMarkdown(content)]

\* saveSection that keeps a section only when lines were accumulated for it.
saveSectionWithContent(sections, currentSection, currentContent) ==
    IF currentSection # << >> /\ currentContent # << >>
    THEN Append(sections, closeSection(currentSection[1], currentContent))
    ELSE sections

saveSection(sections, currentSection, currentContent) ==
    IF currentSection # << >>
    THEN Append(sections, closeSection(currentSection[1], currentContent))
    ELSE sections

newSection(m, i) ==
    [id |-> headingId(m.heading),
     level |-> m.level,
     heading |-> m.heading,
     content |-> << >>,
     contentPlain |-> << >>,
     lineNumber |-> i,
     codeBlocks |-> << >>,
     lists |-> << >>,
     links |-> << >>]

\* The else-if branch of the loop: a line inside the current section.
scanSectionLine(section, lines, i) ==
    LET line == lines[i]
    IN  [section EXCEPT
           !.codeBlocks = IF StartsWith(line, Fence)
                          THEN @ \o extractCodeBlockFromLine(lines, i)
                          ELSE @,
           !.lists = IF listItemMatch(line) THEN Append(@, Trim(line)) ELSE @,
           !.links = @ \o lineLinks(line, 1, << >>)]

RECURSIVE extractSectionsFrom(_, _, _, _, _)
extractSectionsFrom(lines, i, sections, currentSection, currentContent) ==
    IF i > Len(lines)
    THEN saveSection(sections, currentSection, currentContent)
    ELSE LET m == headingMatch(lines[i])
         IN  IF m # << >>
             THEN extractSectionsFrom(lines, i + 1,
                      saveSection(sections, currentSection, currentContent),
                      << newSection(m[1], i) >>, << >>)
             ELSE IF currentSection # << >>
             THEN extractSectionsFrom(lines, i + 1, sections,
                      << scanSectionLine(currentSection[1], lines, i) >>,
                      Append(currentContent, lines[i]))
             ELSE extractSectionsFrom(lines, i + 1, sections,
                      currentSection, currentContent)

\* extractSections with the lines before the first heading put in an implicit
\* root section.
extractSectionsWithPreamble(lines) ==
    extractSectionsFrom(lines, 1, << >>,
                        << newSection([level |-> 1, heading |-> << >>], 0) >>,
                        << >>)

extractSections(lines) == extractSectionsFrom(lines, 1, << >>, << >>, << >>)

(***************************************************************************)
(* Document-level classification.                                          *)
(***************************************************************************)
WApi == << "a", "p", "i" >>

WReference == << "r", "e", "f", "e", "r", "e", "n", "c", "e" >>

WTutorial == << "t", "u", "t", "o", "r", "i", "a", "l" >>

WGuide == << "g", "u", "i", "d", "e" >>

WInstallation == << "i", "n", "s", "t", "a", "l", "l", "a", "t", "i", "o", "n" >>

WSetup == << "s", "e", "t", "u", "p" >>

ApiReference == << "a", "p", "i", "-", "r", "e", "f", "e", "r", "e", "n", "c", "e" >>

Tutorial == << "t", "u", "t", "o", "r", "i", "a", "l" >>

Example == << "e", "x", "a", "m", "p", "l", "e" >>

SetupGuide == << "s", "e", "t", "u", "p", "-", "g", "u", "i", "d", "e" >>

Documentation == << "d", "o", "c", "u", "m", "e", "n", "t", "a", "t", "i", "o", "n" >>

General == << "g", "e", "n", "e", "r", "a", "l" >>

WFunction == << "f", "u", "n", "c", "t", "i", "o", "n" >>

WLet == << "l", "e", "t" >>

WVar == << "v", "a", "r" >>

DotMd == << ".", "m", "d" >>

Ellipsis == << ".", ".", "." >>

\* The maximal runs of non-blank characters of s, in order: the non-empty
\* entries of s.split(/\s+/).
RECURSIVE splitWords(_, _, _)
splitWords(s, i, out) ==
    IF i > Len(s) THEN out
    ELSE IF s[i] \in SpaceSet THEN splitWords(s, i + 1, out)
    ELSE LET e == NextIn(s, i, SpaceSet) - 1
         IN  splitWords(s, e + 1, Append(out, SubSeq(s, i, e)))

countWords(text) == Len(splitWords(removeFenced(text), 1, << >>))

\* s.split('\n\n')
RECURSIVE splitParagraphs(_, _, _)
splitParagraphs(s, i, out) ==
    LET at == FirstAt(s, << NL, NL >>, i)
    IN  IF at = 0 THEN Append(out, Slice(s, i - 1))
        ELSE splitParagraphs(s, at + 2,
                             Append(out, IF at > i THEN SubSeq(s, i, at - 1)
                                         ELSE << >>))

SummaryLimit == 200

SummaryKeep == 197

generateSummary(text) ==
    LET withoutCode == removeFenced(text)
        trimmed == [k \in 1..Len(splitParagraphs(withoutCode, 1, << >>)) |->
                       Trim(splitParagraphs(withoutCode, 1, << >>)[k])]
        paragraphs == SelectSeq(trimmed,
                          LAMBDA p : p # << >> /\ ~StartsWith(p, << "#" >>))
        firstParagraph == IF paragraphs = << >> THEN << >> ELSE paragraphs[1]
    IN  IF Len(firstParagraph) > SummaryLimit
        THEN SubSeq(firstParagraph, 1, SummaryKeep) \o Ellipsis
        ELSE firstParagraph

\* keywords.add(k) on a Set, which keeps insertion order.
addKeyword(keywords, k) ==
    IF \E j \in 1..Len(keywords) : keywords[j] = k THEN keywords
    ELSE Append(keywords, k)

RECURSIVE addKeywords(_, _)
addKeywords(keywords, ks) ==
    IF ks = << >> THEN keywords
    ELSE addKeywords(addKeyword(keywords, Head(ks)), Tail(ks))

\* markdown.match(/^#{1,6}\s+(.+)$/gm): \s+ may run over line breaks, and
\* (.+) stays on one line.
RECURSIVE headingMatches(_, _, _)
headingMatches(text, i, out) ==
    IF i > Len(text) THEN out
    ELSE LET n == NextNotIn(text, i, {"#"}) - i
             w == NextNotIn(text, i + n, SpaceSet) - 1
             eol == IF w < Len(text) THEN NextIn(text, w + 1, {NL}) - 1
                    ELSE Len(text)
         IN  IF /\ (i = 1 \/ text[i - 1] = NL)
                /\ n >= 1 /\ n <= 6 /\ w >= i + n
                /\ (w < Len(text) \/ (w >= i + n + 1 /\ text[w] # NL))
             THEN headingMatches(text, eol + 1,
                                 Append(out, SubSeq(text, i, eol)))
             ELSE headingMatches(text, i + 1, out)

\* heading.replace(/^#+\s+/, '').split(/\s+/), each word lower-cased and
\* stripped of [^\w]; the words longer than 3 are kept.
headingWords(heading) ==
    LET n == NextNotIn(heading, 1, {"#"})
        w == NextNotIn(heading, n, SpaceSet)
        words == splitWords(IF n > 1 /\ w > n THEN Slice(heading, w - 1)
                            ELSE heading,
                            1, << >>)
        cleaned == [k \in 1..Len(words) |->
                       SelectSeq(ToLower(words[k]), LAMBDA c : c \in WordSet)]
    IN  SelectSeq(cleaned, LAMBDA c : Len(c) > 3)

RECURSIVE flatten(_)
flatten(ss) == IF ss = << >> THEN << >> ELSE Head(ss) \o flatten(Tail(ss))

\* markdown.match(/\b[a-z]+[A-Z][a-zA-Z]*\b/g)
RECURSIVE technicalTerms(_, _, _)
technicalTerms(text, i, out) ==
    IF i > Len(text) THEN out
    ELSE LET l == NextNotIn(text, i, LowerSet)
             e == NextNotIn(text, l + 1, LowerSet \cup UpperSet) - 1
         IN  IF /\ (i = 1 \/ text[i - 1] \notin WordSet)
                /\ l > i /\ l <= Len(text) /\ text[l] \in UpperSet
                /\ (e + 1 > Len(text) \/ text[e + 1] \notin WordSet)
             THEN technicalTerms(text, e + 1, Append(out, SubSeq(text, i, e)))
             ELSE technicalTerms(text, i + 1, out)

DeclarationWords == << WFunction, WConst, WLet, WVar >>

\* markdown.match(/\b(function|const|let|var)\s+(\w+)/g), each match cut to
\* its last word by match.split(/\s+/).pop().
RECURSIVE functionNames(_, _, _)
functionNames(text, i, out) ==
    IF i > Len(text) THEN out
    ELSE LET ks == { k \in 1..4 : StartsWithAt(text, DeclarationWords[k], i) }
             k == IF ks = {} THEN 0 ELSE CHOOSE j \in ks : TRUE
             b == IF k = 0 THEN i ELSE i + Len(DeclarationWords[k])
             w == NextNotIn(text, b, SpaceSet)
             e == NextNotIn(text, w, WordSet) - 1
         IN  IF /\ (i = 1 \/ text[i - 1] \notin WordSet)
                /\ k # 0 /\ w > b /\ e >= w
             THEN functionNames(text, e + 1, Append(out, SubSeq(text, w, e)))
             ELSE functionNames(text, i + 1, out)

KeywordLimit == 20

extractKeywords(text, frontmatter) ==
    LET tags == [k \in 1..Len(frontmatter.tags) |-> ToLower(frontmatter.tags[k])]
        hs == headingMatches(text, 1, << >>)
        hwords == flatten([k \in 1..Len(hs) |-> headingWords(hs[k])])
        all == addKeywords(
                 addKeywords(
                   addKeywords(addKeywords(<< >>, tags), hwords),
                   technicalTerms(text, 1, << >>)),
                 functionNames(text, 1, << >>))
    IN  IF Len(all) > KeywordLimit THEN SubSeq(all, 1, KeywordLimit) ELSE all

determineContentType(text, frontmatter) ==
    LET content == ToLower(text)
    IN  IF Includes(content, WApi) \/ Includes(content, WReference)
        THEN ApiReference
        ELSE IF Includes(content, WTutorial) \/ Includes(content, WGuide)
        THEN Tutorial
        ELSE IF Includes(content, WExample) THEN Example
        ELSE IF Includes(content, WInstallation) \/ Includes(content, WSetup)
        THEN SetupGuide
        ELSE IF frontmatter.category # << >> THEN frontmatter.category
        ELSE Documentation

\* The score of estimateComplexity, times 200 so that it stays an integer:
\* 2 * codeBlocks + min(technicalTerms / 5, 10) + min(wordCount / 200, 10).
\* The tiers of the exact score and of the floating-point score of the code
\* are the same for every count the model reaches.
ScoreScale == 200

Min(a, b) == IF a < b THEN a ELSE b

\* complexityScore with the two quotients rounded down to integers.
complexityScoreFloored(codeBlockCount, technicalTermCount, wordCount) ==
    2 * ScoreScale * codeBlockCount
      + Min(ScoreScale * (technicalTermCount \div 5), 10 * ScoreScale)
      + Min(ScoreScale * (wordCount \div 200), 10 * ScoreScale)

complexityScore(codeBlockCount, technicalTermCount, wordCount) ==
    2 * ScoreScale * codeBlockCount
      + Min((ScoreScale \div 5) * technicalTermCount, 10 * ScoreScale)
      + Min(wordCount, 10 * ScoreScale)

complexityTier(score) ==
    IF score < 10 * ScoreScale THEN "beginner"
    ELSE IF score < 25 * ScoreScale THEN "intermediate"
    ELSE "advanced"

estimateComplexity(text, codeBlocks) ==
    complexityTier(complexityScore(Len(codeBlocks),
                                   Len(technicalTerms(text, 1, << >>)),
                                   countWords(text)))

\* titleOf with the first heading consulted before the front-matter title.
titleOfHeadingFirst(frontmatter, sections, slug) ==
    IF sections # << >> THEN sections[1].heading
    ELSE IF frontmatter.title # << >> THEN frontmatter.title
    ELSE slug

\* frontmatter.title || sections[0]?.heading || slug
titleOf(frontmatter, sections, slug) ==
    IF frontmatter.title # << >> THEN frontmatter.title
    ELSE IF sections # << >> THEN sections[1].heading
    ELSE slug

\* slug.split('/')
RECURSIVE splitSlash(_, _, _)
splitSlash(s, i, out) ==
    LET at == NextIn(s, i, {"/"})
    IN  IF at > Len(s) THEN Append(out, Slice(s, i - 1))
        ELSE splitSlash(s, at + 1,
                        Append(out, IF at > i THEN SubSeq(s, i, at - 1)
                                    ELSE << >>))

\* extractCategory that takes the first part of the slug whatever their number.
extractCategoryFirstPart(slug) == splitSlash(slug, 1, << >>)[1]

extractCategory(slug) ==
    LET parts == splitSlash(slug, 1, << >>)
    IN  IF Len(parts) > 1 THEN parts[1] ELSE General

\* relativePath.replace(/\.md$/, '').replace(/\\/g, '/').replace(/^\//, '')
slugOf(relativePath) ==
    LET a == IF Len(relativePath) >= 3
                /\ StartsWithAt(relativePath, DotMd, Len(relativePath) - 2)
             THEN SubSeq(relativePath, 1, Len(relativePath) - 3)
             ELSE relativePath
        b == [k \in 1..Len(a) |-> IF a[k] = "\\" THEN "/" ELSE a[k]]
    IN  IF Len(b) >= 1 /\ b[1] = "/" THEN Slice(b, 1) ELSE b

(***************************************************************************)
(* buildTableOfContents.  The items of the code are objects the stack and  *)
(* the tree share; here item k is the one made for sections[k], item 0 is  *)
(* the virtual root, children[k] lists the items pushed to item k's        *)
(* children array, and the stack holds item numbers.                       *)
(***************************************************************************)
tocLevel(sections, k) == IF k = 0 THEN 0 ELSE sections[k].level

\* popStack with > for >=: a section of the same level is not popped.
RECURSIVE popStackStrict(_, _, _)
popStackStrict(sections, stack, level) ==
    IF Len(stack) > 1 /\ tocLevel(sections, stack[Len(stack)]) > level
    THEN popStackStrict(sections, SubSeq(stack, 1, Len(stack) - 1), level)
    ELSE stack

\* while (stack.length > 1 && stack[stack.length - 1].level >= section.level)
RECURSIVE popStack(_, _, _)
popStack(sections, stack, level) ==
    IF Len(stack) > 1 /\ tocLevel(sections, stack[Len(stack)]) >= level
    THEN popStack(sections, SubSeq(stack, 1, Len(stack) - 1), level)
    ELSE stack

RECURSIVE tocLoop(_, _, _, _)
tocLoop(sections, k, children, stack) ==
    IF k > Len(sections) THEN children
    ELSE LET popped == popStack(sections, stack, sections[k].level)
             parent == popped[Len(popped)]
         IN  tocLoop(sections, k + 1,
                     [children EXCEPT ![parent] = Append(@, k)],
                     Append(popped, k))

RECURSIVE tocItem(_, _, _)
tocItem(sections, children, k) ==
    [id |-> sections[k].id,
     heading |-> sections[k].heading,
     level |-> sections[k].level,
     children |-> [j \in 1..Len(children[k]) |->
                      tocItem(sections, children, children[k][j])]]

buildTableOfContents(sections) ==
    LET children == tocLoop(sections, 1,
                            [k \in 0..Len(sections) |-> << >>], << 0 >>)
    IN  [j \in 1..Len(children[0]) |-> tocItem(sections, children, children[0][j])]

(***************************************************************************)
(* parseMarkdownForLLM.  A file is what fs.readFileSync, gray-matter and   *)
(* fs.statSync give for it: its front-matter, the lines of its body and    *)
(* its modification time, with the path relative to the source directory.  *)
(* An absent front-matter key is the empty sequence (as falsy as '' is).   *)
(* What the scanner returned may be a directory, which fs.readFileSync     *)
(* refuses (EISDIR), and the header block of a file may be one gray-matter *)
(* cannot parse: its YAML parser throws, and nothing on the way catches.   *)
(***************************************************************************)
HeaderOk == "ok"

HeaderMalformed == "malformed"

\* fs.readFileSync(filePath, 'utf-8') or matter(content) throws.
parseThrows(f) == f.isDirectory \/ f.header = HeaderMalformed

ceilDiv(a, b) == (a + b - 1) \div b

ReadingSpeed == 200

parseMarkdownForLLM(f) ==
    LET frontmatter == f.frontmatter
        markdown == Join(f.lines)
        slug == slugOf(f.relativePath)
        sections == extractSections(f.lines)
        codeBlocks == extractCodeBlocks(f.lines)
        summary == generateSummary(markdown)
    IN  [slug |-> slug,
         path |-> f.relativePath,
         title |-> titleOf(frontmatter, sections, slug),
         description |-> IF frontmatter.description # << >>
                         THEN frontmatter.description ELSE summary,
         summary |-> summary,
         keywords |-> extractKeywords(markdown, frontmatter),
         tags |-> frontmatter.tags,
         category |-> IF frontmatter.category # << >> THEN frontmatter.category
                      ELSE extractCategory(slug),
         sections |-> sections,
         codeExamples |-> codeBlocks,
         tableOfContents |-> buildTableOfContents(sections),
         fullContent |-> markdown,
         frontmatter |-> frontmatter,
         lastModified |-> f.mtime,
         wordCount |-> countWords(markdown),
         estimatedReadingTime |-> ceilDiv(countWords(markdown), ReadingSpeed),
         contentType |-> determineContentType(markdown, frontmatter),
         complexity |-> estimateComplexity(markdown, codeBlocks)]

(***************************************************************************)
(* State.                                                                  *)
(***************************************************************************)
VARIABLES
    pc,             \* where the run is
    source,         \* the source directory: its entries, as fs.readdirSync lists them
    markdownFiles,  \* what getMarkdownFiles returned
    docs,           \* the records parsed so far
    index,          \* the index object of generateLLMOptimizedAPI, once built
    next,           \* the position of docs.forEach in the per-document writes
    dest,           \* the destination directory: whether it exists, and its files
    thrown,         \* whether the run has thrown
    clock,          \* what new Date() returns
    file,           \* the file parseMarkdownForLLM is called on, applied on its own
    doc,            \* the record it returned: a sequence of length 0 or 1
    input,          \* the argument of another function applied on its own
    result          \* what that function returned: a sequence of length 0 or 1

runVars == << source, markdownFiles, docs, index, next, dest, thrown, clock >>

fnVars == << file, doc, input, result >>

vars == << pc, runVars, fnVars >>

(***************************************************************************)
(* The documents the model parses: every body of 1 to MaxLines lines of    *)
(* LinePool, with or without a front-matter title.                         *)
(***************************************************************************)
MaxLines == 4

LineH1 == << "#", " ", "A" >>

LineH3 == << "#", "#", "#", " ", "B" >>

LineH2 == << "#", "#", " ", "C" >>

LineH7 == << "#", "#", "#", "#", "#", "#", "#", " ", "G" >>

LineFenceJs == Fence \o << "j", "s" >>

LineText == << "a", "p", "i", " ", "c", "D" >>

LinePool == { LineH1, LineH3, LineH2, LineH7, Fence, LineFenceJs, LineText, << >> }

TitleFoo == << "F", "o", "o" >>

PathDoc == << "d", ".", "m", "d" >>

NoFrontmatter ==
    [title |-> << >>, description |-> << >>, tags |-> << >>, category |-> << >>]

Bodies == UNION { [1..n -> LinePool] : n \in 1..MaxLines }

ParseFiles ==
    { [relativePath |-> PathDoc,
       frontmatter |-> [NoFrontmatter EXCEPT !.title = t],
       lines |-> b,
       mtime |-> 1,
       isDirectory |-> FALSE,
       header |-> HeaderOk] : t \in { << >>, TitleFoo }, b \in Bodies }

NoFile ==
    [relativePath |-> << >>, frontmatter |-> NoFrontmatter,
     lines |-> << << >> >>, mtime |-> 0, isDirectory |-> FALSE,
     header |-> HeaderOk]

NoIndex == [total |-> 0]

NoDest == [exists |-> FALSE, files |-> << >>]

\* No run of generateLLMOptimizedAPI is under way.
NoRun ==
    /\ source = << >>
    /\ markdownFiles = << >>
    /\ docs = << >>
    /\ index = NoIndex
    /\ next = 1
    /\ dest = NoDest
    /\ thrown = FALSE
    /\ clock = 1

InitParse ==
    /\ pc = "start"
    /\ file \in ParseFiles
    /\ doc = << >>
    /\ input = << >>
    /\ result = << >>
    /\ NoRun

ParseFile ==
    /\ pc = "start"
    /\ doc' = << parseMarkdownForLLM(file) >>
    /\ pc' = "parsed"
    /\ UNCHANGED << file, input, result, runVars >>

NextParse == ParseFile

SpecParse == InitParse /\ [][NextParse]_vars

(***************************************************************************)
(* buildTableOfContents on its own: every list of up to MaxSections        *)
(* sections with levels 1 to 6.  Section k is named by the k-th letter.    *)
(***************************************************************************)
MaxSections == 4

sectionNamed(k, level) ==
    [id |-> << LowerSeq[k] >>, heading |-> << UpperSeq[k] >>, level |-> level]

SectionLists ==
    UNION { { [k \in 1..n |-> sectionNamed(k, ls[k])] : ls \in [1..n -> 1..6] } :
            n \in 0..MaxSections }

InitToc ==
    /\ pc = "start"
    /\ input \in SectionLists
    /\ result = << >>
    /\ file = NoFile
    /\ doc = << >>
    /\ NoRun

BuildToc ==
    /\ pc = "start"
    /\ result' = << buildTableOfContents(input) >>
    /\ pc' = "built"
    /\ UNCHANGED << file, doc, input, runVars >>

NextToc == BuildToc

SpecToc == InitToc /\ [][NextToc]_vars

(***************************************************************************)
(* detectCodePurpose on its own: every code body of up to MaxCodeLines     *)
(* lines of CodeLinePool.                                                  *)
(***************************************************************************)
MaxCodeLines == 3

CodeInterface == << "i", "n", "t", "e", "r", "f", "a", "c", "e", " ", "F", "o", "o" >>

CodeExpect == << "e", "x", "p", "e", "c", "t", "(", "x", ")", ".", "t", "o", "B", "e", "(", "y", ")" >>

CodeConst == << "c", "o", "n", "s", "t", " ", "a" >>

CodePlain == << "x", " ", "=", " ", "1" >>

CodeTestUpper == << "T", "E", "S", "T" >>

CodeType == << "T", "y", "p", "e", " ", "T" >>

CodeLinePool ==
    { CodeInterface, CodeExpect, CodeConst, CodePlain, CodeTestUpper, CodeType }

CodeBodies == UNION { [1..n -> CodeLinePool] : n \in 0..MaxCodeLines }

InitPurpose ==
    /\ pc = "start"
    /\ input \in CodeBodies
    /\ result = << >>
    /\ file = NoFile
    /\ doc = << >>
    /\ NoRun

DetectPurpose ==
    /\ pc = "start"
    /\ result' = << detectCodePurpose(Join(input), Plaintext) >>
    /\ pc' = "classified"
    /\ UNCHANGED << file, doc, input, runVars >>

NextPurpose == DetectPurpose

SpecPurpose == InitPurpose /\ [][NextPurpose]_vars

(***************************************************************************)
(* The score and tier of estimateComplexity on its own, for the counts of  *)
(* a document: up to MaxBlocks code blocks, MaxTerms technical terms and   *)
(* 50 * MaxWordSteps words.                                              *)
(***************************************************************************)
MaxBlocks == 13

MaxTerms == 52

MaxWordSteps == 41

ComplexityInputs ==
    [codeBlockCount : 0..MaxBlocks,
     technicalTermCount : 0..MaxTerms,
     wordCount : { 50 * k : k \in 0..MaxWordSteps }]

InitComplexity ==
    /\ pc = "start"
    /\ input \in ComplexityInputs
    /\ result = << >>
    /\ file = NoFile
    /\ doc = << >>
    /\ NoRun

EstimateComplexity ==
    /\ pc = "start"
    /\ result' = << complexityTier(complexityScore(input.codeBlockCount,
                                                   input.technicalTermCount,
                                                   input.wordCount)) >>
    /\ pc' = "estimated"
    /\ UNCHANGED << file, doc, input, runVars >>

NextComplexity == EstimateComplexity

SpecComplexity == InitComplexity /\ [][NextComplexity]_vars

(***************************************************************************)
(* getMarkdownFiles.  A directory is the sequence of its entries in the    *)
(* order fs.readdirSync lists them; an entry has a name and is a directory *)
(* (with entries) or a file (with front-matter, lines and mtime).  prefix  *)
(* is the directory's path relative to baseDir.                            *)
(***************************************************************************)
NodeModules == << "n", "o", "d", "e", "_", "m", "o", "d", "u", "l", "e", "s" >>

Public == << "p", "u", "b", "l", "i", "c" >>

EndsWith(s, p) == Len(s) >= Len(p) /\ StartsWithAt(s, p, Len(s) - Len(p) + 1)

\* path.relative(baseDir, path.join(dir, file))
relativeTo(prefix, name) ==
    IF prefix = << >> THEN name ELSE prefix \o << "/" >> \o name

RECURSIVE getMarkdownFilesIn(_, _, _)
getMarkdownFilesIn(entries, prefix, fileList) ==
    IF entries = << >> THEN fileList
    ELSE LET e == Head(entries)
             listed ==
                 IF /\ e.isDirectory
                    /\ ~StartsWith(e.name, << "." >>)
                    /\ e.name # NodeModules
                    /\ e.name # Public
                 THEN getMarkdownFilesIn(e.entries, relativeTo(prefix, e.name),
                                         fileList)
                 ELSE IF EndsWith(e.name, DotMd)
                 THEN Append(fileList,
                             [relativePath |-> relativeTo(prefix, e.name),
                              frontmatter |-> e.frontmatter,
                              lines |-> e.lines,
                              mtime |-> e.mtime,
                              isDirectory |-> e.isDirectory,
                              header |-> e.header])
                 ELSE fileList
         IN  getMarkdownFilesIn(Tail(entries), prefix, listed)

getMarkdownFiles(dir) == getMarkdownFilesIn(dir, << >>, << >>)

(***************************************************************************)
(* The artifacts of generateLLMOptimizedAPI.  A file's content is the      *)
(* object handed to JSON.stringify; the size strings of routes.json, which *)
(* are lengths of JSON texts, and its fixed usage texts are left out.      *)
(***************************************************************************)
RECURSIVE sumOf(_)
sumOf(ns) == IF ns = << >> THEN 0 ELSE Head(ns) + sumOf(Tail(ns))

\* [...new Set(xs)]
distinct(xs) == addKeywords(<< >>, xs)

\* Math.round(a / b) for a, b >= 0: one number, or nothing for NaN (0 / 0),
\* which JSON.stringify writes as null.
roundDiv(a, b) == IF b = 0 THEN << >> ELSE << (2 * a + b) \div (2 * b) >>

indexArtifact(ds, now) ==
    [total |-> Len(ds),
     metadata |->
        [generatedAt |-> now,
         totalWords |-> sumOf([k \in 1..Len(ds) |-> ds[k].wordCount]),
         totalCodeExamples |->
            sumOf([k \in 1..Len(ds) |-> Len(ds[k].codeExamples)]),
         categories |-> distinct([k \in 1..Len(ds) |-> ds[k].category]),
         contentTypes |-> distinct([k \in 1..Len(ds) |-> ds[k].contentType])],
     docs |->
        [k \in 1..Len(ds) |->
            [slug |-> ds[k].slug,
             path |-> ds[k].path,
             title |-> ds[k].title,
             summary |-> ds[k].summary,
             category |-> ds[k].category,
             contentType |-> ds[k].contentType,
             complexity |-> ds[k].complexity,
             keywords |-> ds[k].keywords,
             tags |-> ds[k].tags,
             sections |->
                [j \in 1..Len(ds[k].sections) |->
                    [id |-> ds[k].sections[j].id,
                     heading |-> ds[k].sections[j].heading,
                     level |-> ds[k].sections[j].level]],
             codeExampleCount |-> Len(ds[k].codeExamples),
             wordCount |-> ds[k].wordCount,
             estimatedReadingTime |-> ds[k].estimatedReadingTime,
             lastModified |-> ds[k].lastModified]]]

searchArtifact(ds) ==
    [k \in 1..Len(ds) |->
        [slug |-> ds[k].slug,
         title |-> ds[k].title,
         summary |-> ds[k].summary,
         keywords |-> ds[k].keywords,
         category |-> ds[k].category,
         contentType |-> ds[k].contentType,
         sections |->
            [j \in 1..Len(ds[k].sections) |->
                [heading |-> ds[k].sections[j].heading,
                 contentPlain |-> ds[k].sections[j].contentPlain]]]]

\* The names every object inherits from Object.prototype: categoryIndex[name]
\* is truthy for them before anything is stored, so no array is created and
\* categoryIndex[name].push is not a function.
ObjectPrototypeKeys ==
    { << "c", "o", "n", "s", "t", "r", "u", "c", "t", "o", "r" >>,
      << "t", "o", "S", "t", "r", "i", "n", "g" >>,
      << "t", "o", "L", "o", "c", "a", "l", "e", "S", "t", "r", "i", "n", "g" >>,
      << "v", "a", "l", "u", "e", "O", "f" >>,
      << "h", "a", "s", "O", "w", "n", "P", "r", "o", "p", "e", "r", "t", "y" >>,
      << "i", "s", "P", "r", "o", "t", "o", "t", "y", "p", "e", "O", "f" >>,
      << "p", "r", "o", "p", "e", "r", "t", "y", "I", "s", "E", "n", "u", "m", "e", "r", "a", "b", "l", "e" >>,
      << "_", "_", "p", "r", "o", "t", "o", "_", "_" >>,
      << "_", "_", "d", "e", "f", "i", "n", "e", "G", "e", "t", "t", "e", "r", "_", "_" >>,
      << "_", "_", "d", "e", "f", "i", "n", "e", "S", "e", "t", "t", "e", "r", "_", "_" >>,
      << "_", "_", "l", "o", "o", "k", "u", "p", "G", "e", "t", "t", "e", "r", "_", "_" >>,
      << "_", "_", "l", "o", "o", "k", "u", "p", "S", "e", "t", "t", "e", "r", "_", "_" >> }

categoriesThrows(ds) ==
    \E k \in 1..Len(ds) : ds[k].category \in ObjectPrototypeKeys

\* categoriesArtifact that puts each document at the head of its array.
categoriesArtifactNewestFirst(ds) ==
    LET names == distinct([k \in 1..Len(ds) |-> ds[k].category])
        entry(d) == [slug |-> d.slug, title |-> d.title, summary |-> d.summary]
    IN  [c \in 1..Len(names) |->
            [name |-> names[c],
             docs |-> LET of == SelectSeq(ds, LAMBDA d : d.category = names[c])
                      IN  [j \in 1..Len(of) |-> entry(of[Len(of) + 1 - j])]]]

\* categoryIndex, as the sequence of its keys in insertion order with the
\* array of each.
categoriesArtifact(ds) ==
    LET names == distinct([k \in 1..Len(ds) |-> ds[k].category])
        entry(d) == [slug |-> d.slug, title |-> d.title, summary |-> d.summary]
    IN  [c \in 1..Len(names) |->
            [name |-> names[c],
             docs |-> LET of == SelectSeq(ds, LAMBDA d : d.category = names[c])
                      IN  [j \in 1..Len(of) |-> entry(of[j])]]]

ApiPrefix == << "/", "a", "p", "i", "/" >>

CategoryPrefix == << "/", "a", "p", "i", "/", "c", "a", "t", "e", "g", "o", "r", "y", "-" >>

DotJson == << ".", "j", "s", "o", "n" >>

IndexJson == << "i", "n", "d", "e", "x", ".", "j", "s", "o", "n" >>

SearchJson == << "s", "e", "a", "r", "c", "h", ".", "j", "s", "o", "n" >>

CategoriesJson == << "c", "a", "t", "e", "g", "o", "r", "i", "e", "s", ".", "j", "s", "o", "n" >>

RoutesJson == << "r", "o", "u", "t", "e", "s", ".", "j", "s", "o", "n" >>

MetadataJson == << "m", "e", "t", "a", "d", "a", "t", "a", ".", "j", "s", "o", "n" >>

RouteKeywords == 8

RouteSummary == 120

firstOf(s, n) == IF Len(s) > n THEN SubSeq(s, 1, n) ELSE s

routesArtifact(ds, idx, now) ==
    [generated |-> now,
     stats |->
        [totalDocuments |-> Len(ds),
         totalWords |-> idx.metadata.totalWords,
         totalCodeExamples |-> idx.metadata.totalCodeExamples,
         categories |-> Len(idx.metadata.categories),
         contentTypes |-> Len(idx.metadata.contentTypes)],
     endpoints |->
        << ApiPrefix \o RoutesJson, ApiPrefix \o IndexJson,
           ApiPrefix \o SearchJson, ApiPrefix \o CategoriesJson,
           ApiPrefix \o MetadataJson >>,
     categories |->
        [c \in 1..Len(idx.metadata.categories) |->
            [name |-> idx.metadata.categories[c],
             count |-> Len(SelectSeq(ds,
                          LAMBDA d : d.category = idx.metadata.categories[c])),
             route |-> CategoryPrefix \o idx.metadata.categories[c] \o DotJson]],
     documents |->
        [k \in 1..Len(ds) |->
            [slug |-> ds[k].slug,
             route |-> ApiPrefix \o ds[k].slug \o DotJson,
             title |-> ds[k].title,
             category |-> ds[k].category,
             contentType |-> ds[k].contentType,
             complexity |-> ds[k].complexity,
             keywords |-> firstOf(ds[k].keywords, RouteKeywords),
             summary |-> firstOf(ds[k].summary, RouteSummary) \o Ellipsis,
             wordCount |-> ds[k].wordCount,
             codeExamples |-> Len(ds[k].codeExamples),
             sections |-> Len(ds[k].sections),
             estimatedReadingTime |-> ds[k].estimatedReadingTime]],
     languages |->
        distinct(flatten([k \in 1..Len(ds) |->
            [j \in 1..Len(ds[k].codeExamples) |-> ds[k].codeExamples[j].language]]))]

ProtoKey == << "_", "_", "p", "r", "o", "t", "o", "_", "_" >>

\* What a function that Object.prototype holds under name gives when it is
\* made a string.
functionText(name) ==
    << "f", "u", "n", "c", "t", "i", "o", "n", " " >>
        \o (IF name = << "c", "o", "n", "s", "t", "r", "u", "c", "t", "o", "r" >>
            THEN << "O", "b", "j", "e", "c", "t" >> ELSE name)
        \o << "(", ")", " ", "{", " ", "[", "n", "a", "t", "i", "v", "e", " ",
              "c", "o", "d", "e", "]", " ", "}" >>

\* acc[lang] = (acc[lang] || 0) + 1 over the n blocks of language lang, acc
\* being an object literal: a count, or, for a name that acc inherits a
\* function under, the text of the function with a 1 put after it n times.
languageTally(lang, n) ==
    IF lang \in ObjectPrototypeKeys
    THEN [type |-> "string", value |-> functionText(lang) \o [j \in 1..n |-> "1"]]
    ELSE [type |-> "number", value |-> n]

metadataArtifact(ds, idx, now) ==
    LET languages ==
            flatten([k \in 1..Len(ds) |->
                [j \in 1..Len(ds[k].codeExamples) |-> ds[k].codeExamples[j].language]])
        tier(t) == Len(SelectSeq(ds, LAMBDA d : d.complexity = t))
    IN  [generated |-> now,
         stats |->
            [totalDocs |-> Len(ds),
             totalWords |-> idx.metadata.totalWords,
             totalCodeExamples |-> idx.metadata.totalCodeExamples,
             avgWordsPerDoc |-> roundDiv(idx.metadata.totalWords, Len(ds)),
             avgReadingTime |->
                roundDiv(sumOf([k \in 1..Len(ds) |-> ds[k].estimatedReadingTime]),
                         Len(ds))],
         categories |-> idx.metadata.categories,
         contentTypes |-> idx.metadata.contentTypes,
         complexityDistribution |->
            [beginner |-> tier("beginner"),
             intermediate |-> tier("intermediate"),
             advanced |-> tier("advanced")],
         languageDistribution |->
            [l \in { languages[j] : j \in 1..Len(languages) } \ { ProtoKey } |->
                languageTally(l, Len(SelectSeq(languages, LAMBDA x : x = l)))]]

\* writeFile that leaves the output directory as it was.
writeFileNowhere(d, name, content) == d

\* fs.writeFileSync(path.join(outputDir, name), JSON.stringify(content))
writeFile(d, name, content) ==
    [d EXCEPT !.files = (name :> content) @@ @]

\* path.join(outputDir, slug + '.json'), relative to outputDir
docPath(d) == d.slug \o DotJson

(***************************************************************************)
(* generateLLMOptimizedAPI as a run: the scan, one parse per file, the     *)
(* output directory, then the writes in the order of the code.  The source *)
(* directory is any selection, in order, of the entries of SourceEntries.  *)
(***************************************************************************)
MaxClock == 2

fileEntry(name, frontmatter, lines) ==
    [name |-> name, isDirectory |-> FALSE, entries |-> << >>,
     frontmatter |-> frontmatter, lines |-> lines, mtime |-> 1,
     header |-> HeaderOk]

\* A file whose header block cannot be parsed.
malformedEntry(name, lines) ==
    [fileEntry(name, NoFrontmatter, lines) EXCEPT !.header = HeaderMalformed]

dirEntry(name, entries) ==
    [name |-> name, isDirectory |-> TRUE, entries |-> entries,
     frontmatter |-> NoFrontmatter, lines |-> << >>, mtime |-> 1,
     header |-> HeaderOk]

SourceEntries ==
    << dirEntry(<< ".", "v" >>,
                << fileEntry(<< "h", ".", "m", "d" >>, NoFrontmatter, << LineH1 >>) >>),
       fileEntry(<< "a", ".", "m", "d" >>, NoFrontmatter, << LineH1, LineText >>),
       dirEntry(<< "g" >>,
                << fileEntry(<< "c", ".", "m", "d" >>,
                             [NoFrontmatter EXCEPT !.title = TitleFoo],
                             << LineFenceJs, LineText, Fence >>) >>),
       fileEntry(<< "n", ".", "t", "x", "t" >>, NoFrontmatter, << LineText >>),
       fileEntry(<< "t", ".", "m", "d" >>,
                 [NoFrontmatter EXCEPT !.category = << "c", "o", "n", "s", "t", "r", "u", "c", "t", "o", "r" >>],
                 << LineH2 >>) >>

\* The entries of es that keep picks, in order.
selection(es, picks) ==
    SelectSeq(es, LAMBDA e : \E k \in picks : es[k] = e)

Sources ==
    { selection(SourceEntries, picks) : picks \in SUBSET (1..Len(SourceEntries)) }

Init ==
    /\ pc = "start"
    /\ source \in Sources
    /\ markdownFiles = << >>
    /\ docs = << >>
    /\ index = NoIndex
    /\ next = 1
    /\ dest \in { NoDest, [NoDest EXCEPT !.exists = TRUE] }
    /\ thrown = FALSE
    /\ clock = 1
    /\ file = NoFile
    /\ doc = << >>
    /\ input = << >>
    /\ result = << >>

\* const markdownFiles = getMarkdownFiles(docsDir)
Scan ==
    /\ pc = "start"
    /\ markdownFiles' = getMarkdownFiles(source)
    /\ pc' = "parse"
    /\ UNCHANGED << source, docs, index, next, dest, thrown, clock, fnVars >>

\* One call of the callback of markdownFiles.map.
ParseNext ==
    /\ pc = "parse"
    /\ Len(docs) < Len(markdownFiles)
    /\ IF parseThrows(markdownFiles[Len(docs) + 1])
       THEN /\ thrown' = TRUE
            /\ pc' = "failed"
            /\ UNCHANGED docs
       ELSE /\ docs' = Append(docs, parseMarkdownForLLM(markdownFiles[Len(docs) + 1]))
            /\ UNCHANGED << pc, thrown >>
    /\ UNCHANGED << source, markdownFiles, index, next, dest, clock, fnVars >>

\* EnsureOutputDir that does not wait for the last record.
EnsureOutputDirEarly ==
    /\ pc = "parse"
    /\ dest' = [dest EXCEPT !.exists = TRUE]
    /\ pc' = "index"
    /\ UNCHANGED << source, markdownFiles, docs, index, next, thrown, clock,
                    fnVars >>

\* if (!fs.existsSync(outputDir)) fs.mkdirSync(outputDir, { recursive: true })
EnsureOutputDir ==
    /\ pc = "parse"
    /\ Len(docs) = Len(markdownFiles)
    /\ dest' = [dest EXCEPT !.exists = TRUE]
    /\ pc' = "index"
    /\ UNCHANGED << source, markdownFiles, docs, index, next, thrown, clock,
                    fnVars >>

WriteIndex ==
    /\ pc = "index"
    /\ index' = indexArtifact(docs, clock)
    /\ dest' = writeFile(dest, IndexJson, index')
    /\ next' = 1
    /\ pc' = "docs"
    /\ UNCHANGED << source, markdownFiles, docs, thrown, clock, fnVars >>

\* One call of the callback of docs.forEach: the document's own file.
WriteDoc ==
    /\ pc = "docs"
    /\ next <= Len(docs)
    /\ dest' = writeFile(dest, docPath(docs[next]), docs[next])
    /\ next' = next + 1
    /\ UNCHANGED << pc, source, markdownFiles, docs, index, thrown, clock, fnVars >>

\* WriteSearch that puts the time of the run in search.json.
WriteSearchStamped ==
    /\ pc = "docs"
    /\ next > Len(docs)
    /\ dest' = writeFile(dest, SearchJson,
                         Append(searchArtifact(docs), [generated |-> clock]))
    /\ pc' = "categories"
    /\ UNCHANGED << source, markdownFiles, docs, index, next, thrown, clock,
                    fnVars >>

WriteSearch ==
    /\ pc = "docs"
    /\ next > Len(docs)
    /\ dest' = writeFile(dest, SearchJson, searchArtifact(docs))
    /\ pc' = "categories"
    /\ UNCHANGED << source, markdownFiles, docs, index, next, thrown, clock,
                    fnVars >>

WriteCategories ==
    /\ pc = "categories"
    /\ IF categoriesThrows(docs)
       THEN /\ thrown' = TRUE
            /\ pc' = "failed"
            /\ UNCHANGED dest
       ELSE /\ dest' = writeFile(dest, CategoriesJson, categoriesArtifact(docs))
            /\ pc' = "routes"
            /\ UNCHANGED thrown
    /\ UNCHANGED << source, markdownFiles, docs, index, next, clock, fnVars >>

WriteRoutes ==
    /\ pc = "routes"
    /\ dest' = writeFile(dest, RoutesJson, routesArtifact(docs, index, clock))
    /\ pc' = "metadata"
    /\ UNCHANGED << source, markdownFiles, docs, index, next, thrown, clock,
                    fnVars >>

WriteMetadata ==
    /\ pc = "metadata"
    /\ dest' = writeFile(dest, MetadataJson, metadataArtifact(docs, index, clock))
    /\ pc' = "done"
    /\ UNCHANGED << source, markdownFiles, docs, index, next, thrown, clock,
                    fnVars >>

\* Time passes while the run is under way.
Tick ==
    /\ pc \notin { "done", "failed" }
    /\ clock < MaxClock
    /\ clock' = clock + 1
    /\ UNCHANGED << pc, source, markdownFiles, docs, index, next, dest, thrown,
                    fnVars >>

Next ==
    \/ Scan
    \/ ParseNext
    \/ EnsureOutputDir
    \/ WriteIndex
    \/ WriteDoc
    \/ WriteSearch
    \/ WriteCategories
    \/ WriteRoutes
    \/ WriteMetadata
    \/ Tick

Spec == Init /\ [][Next]_vars

\* The entries of the source directory that yield no document: a hidden
\* directory and a file that is not markdown.
NotDocumentNames == { << ".", "v" >>, << "n", ".", "t", "x", "t" >> }

noDocuments == \A k \in 1..Len(source) : source[k].name \in NotDocumentNames

\* The run is synchronous: once started, it goes on until it ends or throws.
\* The condition is stated for the runs over a source without documents.
EmptyRunStep == noDocuments /\ Next

FairSpec == Spec /\ WF_vars(EmptyRunStep)

(***************************************************************************)
(* extractKeywords on its own: the first tags of a list of MaxTags tags    *)
(* and every body of up to MaxKeywordLines lines of KeywordLinePool.       *)
(***************************************************************************)
MaxTags == 22

MaxKeywordLines == 2

\* "# abCd Wxyz"
KeywordHeading == << "#", " ", "a", "b", "C", "d", " ", "W", "x", "y", "z" >>

\* "const abCd"
KeywordConst == << "c", "o", "n", "s", "t", " ", "a", "b", "C", "d" >>

\* "let wxyz"
KeywordLet == << "l", "e", "t", " ", "w", "x", "y", "z" >>

\* "AbCd efGh"
KeywordPascal == << "A", "b", "C", "d", " ", "e", "f", "G", "h" >>

KeywordLinePool ==
    { KeywordHeading, KeywordConst, KeywordLet, KeywordPascal, << >> }

\* The k-th tag of the front-matter: "ABCD", "efGh", then "ta", "tb", ...
tagAt(k) ==
    IF k = 1 THEN << "A", "B", "C", "D" >>
    ELSE IF k = 2 THEN << "e", "f", "G", "h" >>
    ELSE << "t", LowerSeq[((k - 3) % 26) + 1] >>

KeywordInputs ==
    { [tags |-> [k \in 1..n |-> tagAt(k)], lines |-> b] :
        n \in 0..MaxTags,
        b \in UNION { [1..m -> KeywordLinePool] : m \in 1..MaxKeywordLines } }

InitKeywords ==
    /\ pc = "start"
    /\ input \in KeywordInputs
    /\ result = << >>
    /\ file = NoFile
    /\ doc = << >>
    /\ NoRun

ExtractKeywords ==
    /\ pc = "start"
    /\ result' = << extractKeywords(Join(input.lines),
                                    [NoFrontmatter EXCEPT !.tags = input.tags]) >>
    /\ pc' = "extracted"
    /\ UNCHANGED << file, doc, input, runVars >>

NextKeywords == ExtractKeywords

SpecKeywords == InitKeywords /\ [][NextKeywords]_vars

(***************************************************************************)
(* The run when the file system may refuse a write and the source may hold *)
(* a document whose header block cannot be parsed.  A refused write throws *)
(* out of fs.writeFileSync (or out of the fs.mkdirSync before it), leaving *)
(* the file untouched or cut short; nothing in the run catches it.         *)
(***************************************************************************)
Truncated == [truncated |-> TRUE]

WritePositions == { "index", "docs", "categories", "routes", "metadata" }

\* The file the next write of the run goes to.
pendingFile ==
    IF pc = "index" THEN IndexJson
    ELSE IF pc = "docs" /\ next <= Len(docs) THEN docPath(docs[next])
    ELSE IF pc = "docs" THEN SearchJson
    ELSE IF pc = "categories" THEN CategoriesJson
    ELSE IF pc = "routes" THEN RoutesJson
    ELSE MetadataJson

\* WriteFails that removes what the run wrote before it rethrows.
WriteFailsAndCleans ==
    /\ pc \in WritePositions
    /\ ~(pc = "categories" /\ categoriesThrows(docs))
    /\ dest' = [dest EXCEPT !.files = << >>]
    /\ thrown' = TRUE
    /\ pc' = "failed"
    /\ UNCHANGED << source, markdownFiles, docs, index, next, clock, fnVars >>

WriteFails ==
    /\ pc \in WritePositions
    /\ ~(pc = "categories" /\ categoriesThrows(docs))
    /\ dest' \in { dest, writeFile(dest, pendingFile, Truncated) }
    /\ thrown' = TRUE
    /\ pc' = "failed"
    /\ UNCHANGED << source, markdownFiles, docs, index, next, clock, fnVars >>

FaultEntries ==
    << fileEntry(<< "a", ".", "m", "d" >>, NoFrontmatter, << LineH1, LineText >>),
       malformedEntry(<< "m", ".", "m", "d" >>, << LineText >>),
       dirEntry(<< "g" >>,
                << fileEntry(<< "c", ".", "m", "d" >>,
                             [NoFrontmatter EXCEPT !.title = TitleFoo],
                             << LineH2 >>) >>) >>

FaultSources ==
    { selection(FaultEntries, picks) : picks \in SUBSET (1..Len(FaultEntries)) }

InitFaults ==
    /\ pc = "start"
    /\ source \in FaultSources
    /\ markdownFiles = << >>
    /\ docs = << >>
    /\ index = NoIndex
    /\ next = 1
    /\ dest \in { NoDest, [NoDest EXCEPT !.exists = TRUE] }
    /\ thrown = FALSE
    /\ clock = 1
    /\ file = NoFile
    /\ doc = << >>
    /\ input = << >>
    /\ result = << >>

NextFaults ==
    \/ Next
    \/ WriteFails

SpecFaults == InitFaults /\ [][NextFaults]_vars

(***************************************************************************)
(* getMarkdownFiles on its own: every source directory made of entries of  *)
(* ScanEntries, in their order.  File names are those of a POSIX file      *)
(* system, where a backslash is a character of a name like any other.      *)
(***************************************************************************)
DocumentBody == << LineText >>

ScanEntries ==
    << fileEntry(<< "a", ".", "m", "d" >>, NoFrontmatter, DocumentBody),
       dirEntry(<< "g" >>,
                << fileEntry(<< "c", ".", "m", "d" >>, NoFrontmatter, DocumentBody),
                   dirEntry(Public,
                            << fileEntry(<< "p", ".", "m", "d" >>,
                                         NoFrontmatter, DocumentBody) >>) >>),
       fileEntry(<< "g", "\\", "c", ".", "m", "d" >>, NoFrontmatter, DocumentBody),
       dirEntry(<< ".", "h", ".", "m", "d" >>,
                << fileEntry(<< "x", ".", "m", "d" >>, NoFrontmatter, DocumentBody) >>),
       dirEntry(NodeModules,
                << fileEntry(<< "m", ".", "m", "d" >>, NoFrontmatter, DocumentBody) >>),
       dirEntry(<< ".", "v" >>,
                << fileEntry(<< "h", ".", "m", "d" >>, NoFrontmatter, DocumentBody) >>),
       fileEntry(<< "n", ".", "t", "x", "t" >>, NoFrontmatter, DocumentBody),
       dirEntry(<< "d", ".", "m", "d" >>,
                << fileEntry(<< "e", ".", "m", "d" >>, NoFrontmatter, DocumentBody) >>) >>

ScanSources ==
    { selection(ScanEntries, picks) : picks \in SUBSET (1..Len(ScanEntries)) }

InitScan ==
    /\ pc = "start"
    /\ input \in ScanSources
    /\ result = << >>
    /\ file = NoFile
    /\ doc = << >>
    /\ NoRun

ListMarkdownFiles ==
    /\ pc = "start"
    /\ result' = << getMarkdownFiles(input) >>
    /\ pc' = "listed"
    /\ UNCHANGED << file, doc, input, runVars >>

NextScan == ListMarkdownFiles

SpecScan == InitScan /\ [][NextScan]_vars

(***************************************************************************)
(* Runs that follow one another against the same output directory: the     *)
(* command  node scripts/api.js  started again after the documents have    *)
(* changed or not. input and result keep what the run before was given and *)
(* what it left.                                                           *)
(***************************************************************************)
LineFenceConstructor ==
    Fence \o << "c", "o", "n", "s", "t", "r", "u", "c", "t", "o", "r" >>

RerunEntries ==
    << fileEntry(<< "a", ".", "m", "d" >>, NoFrontmatter, << LineH1, LineText >>),
       dirEntry(<< "g" >>,
                << fileEntry(<< "c", ".", "m", "d" >>,
                             [NoFrontmatter EXCEPT !.title = TitleFoo],
                             << LineFenceJs, LineText, Fence,
                                LineFenceConstructor, LineText, Fence >>) >>),
       fileEntry(<< "i", "n", "d", "e", "x", ".", "m", "d" >>, NoFrontmatter,
                 << LineH2 >>) >>

RerunSources ==
    { selection(RerunEntries, picks) : picks \in SUBSET (1..Len(RerunEntries)) }

InitReruns ==
    /\ pc = "start"
    /\ source \in RerunSources
    /\ markdownFiles = << >>
    /\ docs = << >>
    /\ index = NoIndex
    /\ next = 1
    /\ dest \in { NoDest, [NoDest EXCEPT !.exists = TRUE] }
    /\ thrown = FALSE
    /\ clock = 1
    /\ file = NoFile
    /\ doc = << >>
    /\ input = << >>
    /\ result = << >>

\* The process has ended and the command is started again: every binding of
\* generateLLMOptimizedAPI is new, the output directory is the one on disk.
Rerun ==
    /\ pc \in { "done", "failed" }
    /\ source' \in RerunSources
    /\ input' = source
    /\ result' = << [files |-> dest.files, outcome |-> pc] >>
    /\ pc' = "start"
    /\ markdownFiles' = << >>
    /\ docs' = << >>
    /\ index' = NoIndex
    /\ next' = 1
    /\ thrown' = FALSE
    /\ UNCHANGED << dest, clock, file, doc >>

NextReruns == Next \/ Rerun

SpecReruns == InitReruns /\ [][NextReruns]_vars

(***************************************************************************)
(* The text of a file as fs.readFileSync returns it: the header block that *)
(* matter(content) takes off, when the file has one, and then the body.    *)
(* The block is a line of dashes, one line for each key, a line of dashes. *)
(***************************************************************************)
headerLines(f) ==
    LET keys == { k \in DOMAIN f.frontmatter : f.frontmatter[k] # << >> }
    IN  IF keys = {} THEN 0 ELSE Cardinality(keys) + 2

(***************************************************************************)
(* What the claims are stated with.                                        *)
(***************************************************************************)
\* The nodes of a table of contents, parents before children, in order.
RECURSIVE tocNodes(_)
tocNodes(forest) ==
    IF Len(forest) = 0 THEN << >>
    ELSE << forest[1] >> \o tocNodes(forest[1].children)
                         \o tocNodes(SubSeq(forest, 2, Len(forest)))

idsOf(items) == [j \in 1..Len(items) |-> items[j].id]

\* The ids of the children of the node called id, or of the top level for
\* the empty id.
childIds(forest, id) ==
    LET found == SelectSeq(tocNodes(forest), LAMBDA n : n.id = id)
    IN  IF id = << >> THEN idsOf(forest)
        ELSE IF found = << >> THEN << << >> >>
        ELSE idsOf(found[1].children)

\* The nearest section before k whose level is strictly smaller, or 0.
nearestShallower(sections, k) ==
    LET before == { j \in 1..(k - 1) : sections[j].level < sections[k].level }
    IN  IF before = {} THEN 0
        ELSE CHOOSE j \in before : \A i \in before : i <= j

\* The ids of the sections whose nearest shallower section is p, in order.
childrenExpected(sections, p) ==
    idsOf(SelectSeq(sections,
                    LAMBDA x : \E k \in 1..Len(sections) :
                                  /\ sections[k] = x
                                  /\ nearestShallower(sections, k) = p))

levelsOf(sections) == [k \in 1..Len(sections) |-> sections[k].level]

\* C1: each section's node is a child of the nearest preceding section with a
\* strictly smaller level, or stands at the top level when there is none;
\* siblings keep document order; every node keeps its section's level; and for
\* the levels 1, 3, 2 the second and third nodes are both children of the
\* first, the third not under the second.
TocNestsUnderNearestShallower ==
    pc = "built" =>
        LET toc == result[1]
        IN  /\ Len(tocNodes(toc)) = Len(input)
            /\ childIds(toc, << >>) = childrenExpected(input, 0)
            /\ \A p \in 1..Len(input) :
                  childIds(toc, input[p].id) = childrenExpected(input, p)
            /\ \A n \in 1..Len(tocNodes(toc)) :
                  \E k \in 1..Len(input) :
                     /\ tocNodes(toc)[n].id = input[k].id
                     /\ tocNodes(toc)[n].level = input[k].level
            /\ levelsOf(input) = << 1, 3, 2 >> =>
                  /\ idsOf(toc) = << <<"a">> >>
                  /\ idsOf(toc[1].children) = << <<"b">>, <<"c">> >>
                  /\ toc[1].children[1].children = << >>

TocSkippedLevelBuilt ==
    /\ pc = "built"
    /\ levelsOf(input) = << 1, 3, 2 >>
    /\ idsOf(result[1]) = << <<"a">> >>
    /\ idsOf(result[1][1].children) = << <<"b">>, <<"c">> >>

\* The lines of LinePool that are headings: one to six # and a text.
HeadingLines == { LineH1, LineH3, LineH2 }

headingCount(lines) ==
    Cardinality({ i \in 1..Len(lines) : lines[i] \in HeadingLines })

outline(items) ==
    [j \in 1..Len(items) |->
        [id |-> items[j].id, heading |-> items[j].heading, level |-> items[j].level]]

\* C2: a document with N heading lines has exactly N sections, and its table
\* of contents has exactly N nodes over all nesting levels: the nodes, parents
\* before children, are the sections in document order, each once.
SectionsAndTocCountHeadings ==
    pc = "parsed" =>
        /\ Len(doc[1].sections) = headingCount(file.lines)
        /\ Len(tocNodes(doc[1].tableOfContents)) = headingCount(file.lines)
        /\ outline(tocNodes(doc[1].tableOfContents)) = outline(doc[1].sections)

ThreeHeadingsParsed ==
    /\ pc = "parsed"
    /\ headingCount(file.lines) = 3
    /\ Len(doc[1].sections) = 3
    /\ Len(doc[1].tableOfContents) = 1
    /\ Len(tocNodes(doc[1].tableOfContents)) = 3

\* The number of # a line starts with.
leadingHashes(line) ==
    CHOOSE n \in 0..Len(line) :
        /\ \A k \in 1..n : line[k] = "#"
        /\ n < Len(line) => line[n + 1] # "#"

\* C4: the level of every section is the number of leading # of the line that
\* created it and lies in 1..6; a line with seven or more leading # creates
\* no section.
SectionLevelIsHashCount ==
    pc = "parsed" =>
        /\ \A k \in 1..Len(doc[1].sections) :
              LET sec == doc[1].sections[k]
              IN  /\ sec.lineNumber \in 1..Len(file.lines)
                  /\ sec.level = leadingHashes(file.lines[sec.lineNumber])
                  /\ sec.level \in 1..6
        /\ \A i \in 1..Len(file.lines) :
              leadingHashes(file.lines[i]) >= 7 =>
                 \A k \in 1..Len(doc[1].sections) :
                    doc[1].sections[k].lineNumber # i

SevenHashesAndLevelThreeParsed ==
    /\ pc = "parsed"
    /\ file.lines = << LineH7, LineH3, LineH7 >>
    /\ Len(doc[1].sections) = 1
    /\ doc[1].sections[1].level = 3
    /\ doc[1].sections[1].lineNumber = 2

\* The lines of CodeLinePool each rule of detectCodePurpose matches.
TestIdiomLines == { CodeExpect, CodeTestUpper }

ExampleIdiomLines == { CodeConst }

TypeIdiomLines == { CodeInterface, CodeType }

hasLineOf(body, pool) == \E i \in 1..Len(body) : body[i] \in pool

\* C5: the purpose is the first rule that matches, in the order test, example,
\* type-definition, implementation, on the lower-cased body; a body with both
\* a test idiom and a type idiom is classified test.
PurposeIsFirstMatchingRule ==
    pc = "classified" =>
        /\ result[1] = IF hasLineOf(input, TestIdiomLines) THEN "test"
                       ELSE IF hasLineOf(input, ExampleIdiomLines) THEN "example"
                       ELSE IF hasLineOf(input, TypeIdiomLines) THEN "type-definition"
                       ELSE "implementation"
        /\ (hasLineOf(input, TestIdiomLines) /\ hasLineOf(input, TypeIdiomLines))
              => result[1] = "test"

InterfaceWithExpectIsTest ==
    /\ pc = "classified"
    /\ input = << CodeInterface, CodeExpect >>
    /\ result = << "test" >>

\* C6: the tier is that of 2 * blocks + min(terms / 5, 10) + min(words / 200, 10)
\* with fractional division (stated here in thousandths): beginner below 10,
\* intermediate from 10 and below 25, advanced from 25; three blocks, 250
\* words and no term score 7.25 and are beginner.
ComplexityTierOfFractionalScore ==
    pc = "estimated" =>
        LET thousandths ==
                2000 * input.codeBlockCount
                  + (IF input.technicalTermCount >= 50 THEN 10000
                     ELSE 200 * input.technicalTermCount)
                  + (IF input.wordCount >= 2000 THEN 10000
                     ELSE 5 * input.wordCount)
        IN  /\ result[1] = "beginner" <=> thousandths < 10000
            /\ result[1] = "intermediate" <=>
                  (thousandths >= 10000 /\ thousandths < 25000)
            /\ result[1] = "advanced" <=> thousandths >= 25000
            /\ (/\ input.codeBlockCount = 3
                /\ input.technicalTermCount = 0
                /\ input.wordCount = 250)
                  => /\ thousandths = 7250
                     /\ 100 * complexityScore(3, 0, 250) = 725 * ScoreScale
                     /\ result[1] = "beginner"

ThreeBlocks250WordsEstimated ==
    /\ pc = "estimated"
    /\ input = [codeBlockCount |-> 3, technicalTermCount |-> 0, wordCount |-> 250]
    /\ result = << "beginner" >>

\* The fenced blocks of a document as line spans: the fence lines pair up in
\* order, and a last unpaired fence runs to the end of the document.
FenceLines == { Fence, LineFenceJs }

RECURSIVE fenceSpans(_, _, _)
fenceSpans(lines, i, out) ==
    LET opens == { j \in i..Len(lines) : lines[j] \in FenceLines }
        open == IF opens = {} THEN 0
                ELSE CHOOSE j \in opens : \A k \in opens : j <= k
        closes == { j \in (open + 1)..Len(lines) : lines[j] \in FenceLines }
        close == IF closes = {} THEN Len(lines) + 1
                 ELSE CHOOSE j \in closes : \A k \in closes : j <= k
    IN  IF open = 0 THEN out
        ELSE fenceSpans(lines, close + 1,
                        Append(out, [open |-> open, close |-> close]))

\* The last line of section k: the line before the next section's heading.
sectionEnd(sections, k, lines) ==
    IF k < Len(sections) THEN sections[k + 1].lineNumber - 1 ELSE Len(lines)

languageAndCode(blocks) ==
    [j \in 1..Len(blocks) |->
        [language |-> blocks[j].language, code |-> blocks[j].code]]

sectionBlocks(sections) ==
    flatten([k \in 1..Len(sections) |-> sections[k].codeBlocks])

\* A document that opens with a heading, closes every fence it opens and has
\* no heading line inside a fenced block: no line of it is outside every
\* section, and no fenced block of it is cut by a section boundary.
wellFormed(lines) ==
    LET spans == fenceSpans(lines, 1, << >>)
    IN  /\ lines[1] \in HeadingLines
        /\ \A b \in 1..Len(spans) :
              /\ spans[b].close <= Len(lines)
              /\ \A i \in spans[b].open..spans[b].close :
                    lines[i] \notin HeadingLines

\* C3, on well-formed documents: every block of codeExamples lies within
\* exactly one section, and the codeBlocks of the sections, taken together in
\* document order, are exactly the blocks of codeExamples (same language and
\* code), none missing, repeated or extra.
CodeBlocksAgreeAcrossViews ==
    (pc = "parsed" /\ wellFormed(file.lines)) =>
        LET sections == doc[1].sections
            spans == fenceSpans(file.lines, 1, << >>)
        IN  /\ Len(spans) = Len(doc[1].codeExamples)
            /\ \A b \in 1..Len(spans) :
                  Cardinality({ k \in 1..Len(sections) :
                      /\ spans[b].open > sections[k].lineNumber
                      /\ spans[b].close <= sectionEnd(sections, k, file.lines) }) = 1
            /\ languageAndCode(sectionBlocks(sections))
                  = languageAndCode(doc[1].codeExamples)

\* C9: a document with no heading has no section and an empty table of
\* contents, and takes its title from the front-matter; its code examples,
\* keywords, content type, word count, summary and complexity still come from
\* the whole body: one block per pair of fence lines, the camelCase term and
\* the "api" of a text line wherever it stands, two words for every text or
\* seven-# line of a body without fences, a summary that opens with the first
\* line when that is text, and the tier of the score of these counts.
HeadlessDocumentStillClassified ==
    (pc = "parsed" /\ headingCount(file.lines) = 0) =>
        LET d == doc[1]
            n == Len(file.lines)
            fences == Cardinality({ i \in 1..n : file.lines[i] \in FenceLines })
            texts == Cardinality({ i \in 1..n : file.lines[i] = LineText })
            sevens == Cardinality({ i \in 1..n : file.lines[i] = LineH7 })
        IN  /\ d.sections = << >>
            /\ d.tableOfContents = << >>
            /\ file.frontmatter.title = TitleFoo => d.title = TitleFoo
            /\ Len(d.codeExamples) = (fences + 1) \div 2
            /\ d.keywords = IF texts > 0 THEN << << "c", "D" >> >> ELSE << >>
            /\ d.contentType = IF texts > 0 THEN ApiReference ELSE Documentation
            /\ fences = 0 => d.wordCount = 2 * (texts + sevens)
            /\ file.lines[1] = LineText => StartsWith(d.summary, LineText)
            /\ d.complexity = "beginner" <=>
                  2000 * Len(d.codeExamples) + 200 * texts + 5 * d.wordCount < 10000

HeadlessFooParsed ==
    /\ pc = "parsed"
    /\ file.frontmatter.title = TitleFoo
    /\ file.lines = << LineText, LineFenceJs, LineText, Fence >>
    /\ doc[1].title = TitleFoo
    /\ doc[1].sections = << >>
    /\ doc[1].tableOfContents = << >>
    /\ Len(doc[1].codeExamples) = 1
    /\ doc[1].wordCount = 2
    /\ doc[1].summary = LineText

\* The heading text of a heading line of LinePool.
headingTextOf(line) ==
    IF line = LineH1 THEN << "A" >>
    ELSE IF line = LineH3 THEN << "B" >>
    ELSE << "C" >>

\* C10: the title is the front-matter title when one is given, otherwise the
\* heading text of the first section in document order, otherwise the slug.
TitleByPrecedence ==
    pc = "parsed" =>
        LET hs == { i \in 1..Len(file.lines) : file.lines[i] \in HeadingLines }
        IN  doc[1].title =
               IF file.frontmatter.title # << >> THEN file.frontmatter.title
               ELSE IF hs # {}
               THEN headingTextOf(file.lines[CHOOSE i \in hs : \A j \in hs : i <= j])
               ELSE << "d" >>

TitleFooOverHeadingParsed ==
    /\ pc = "parsed"
    /\ file.frontmatter.title = TitleFoo
    /\ file.lines = << LineText, LineH3, LineH1 >>
    /\ doc[1].sections[1].heading = << "B" >>
    /\ doc[1].title = TitleFoo

\* The source directory holds no document: nothing but the hidden directory
\* and the file that is not markdown.
SharedArtifacts ==
    { IndexJson, SearchJson, CategoriesJson, RoutesJson, MetadataJson }

\* C7: a run on a source directory that holds no document never throws, goes
\* on to its end, and at its end has written index.json with total 0 and the
\* four other shared artifacts, and no per-document file.
EmptySourceRunCompletes ==
    /\ [](noDocuments => (~thrown /\ pc # "failed"))
    /\ []((noDocuments /\ pc = "done") =>
             /\ dest.exists
             /\ DOMAIN dest.files = SharedArtifacts
             /\ dest.files[IndexJson].total = 0
             /\ dest.files[IndexJson].docs = << >>)
    /\ (noDocuments ~> (pc = "done"))

EmptySourceRunDone ==
    /\ pc = "done"
    /\ Len(source) = 2
    /\ noDocuments
    /\ ~thrown
    /\ DOMAIN dest.files = SharedArtifacts
    /\ dest.files[IndexJson].total = 0
    /\ dest.files[MetadataJson].stats.avgWordsPerDoc = << >>

\* C11: no two keywords of a record are equal when compared without regard
\* to case, whatever the sources they came from.
KeywordsDistinctIgnoringCase ==
    pc = "extracted" =>
        \A i, j \in 1..Len(result[1]) :
            i # j => ToLower(result[1][i]) # ToLower(result[1][j])

\* What a line of KeywordLinePool holds, read off the line: the words of a
\* heading of at least four characters, lower-cased; the camelCase and the
\* PascalCase tokens; the identifiers that follow function, const, let or var.
wordsOfHeadingLine(line) ==
    IF line = KeywordHeading
    THEN << << "a", "b", "c", "d" >>, << "w", "x", "y", "z" >> >>
    ELSE << >>

casedTokensOfLine(line) ==
    IF line = KeywordHeading
    THEN << << "a", "b", "C", "d" >>, << "W", "x", "y", "z" >> >>
    ELSE IF line = KeywordConst THEN << << "a", "b", "C", "d" >> >>
    ELSE IF line = KeywordPascal
    THEN << << "A", "b", "C", "d" >>, << "e", "f", "G", "h" >> >>
    ELSE << >>

declaredOfLine(line) ==
    IF line = KeywordConst THEN << << "a", "b", "C", "d" >> >>
    ELSE IF line = KeywordLet THEN << << "w", "x", "y", "z" >> >>
    ELSE << >>

\* The candidates of an input in first-found order, each once.
keywordCandidates(in) ==
    LET perLine(f(_)) == flatten([k \in 1..Len(in.lines) |-> f(in.lines[k])])
        all == [k \in 1..Len(in.tags) |-> ToLower(in.tags[k])]
                   \o perLine(wordsOfHeadingLine)
                   \o perLine(casedTokensOfLine)
                   \o perLine(declaredOfLine)
        first == { k \in 1..Len(all) : \A j \in 1..(k - 1) : all[j] # all[k] }
        nth(n) == CHOOSE k \in first : Cardinality({ j \in first : j < k }) = n - 1
    IN  [n \in 1..Cardinality(first) |-> all[nth(n)]]

\* C12: the keywords are the first 20 candidates, in first-found order, of
\* the tags, the heading words of at least four characters, the camelCase and
\* PascalCase tokens and the declared identifiers; with fewer than 20
\* candidates none is missing.
KeywordsAreFirstCandidates ==
    pc = "extracted" =>
        LET candidates == keywordCandidates(input)
            kept == IF Len(candidates) > 20 THEN 20 ELSE Len(candidates)
        IN  /\ Len(result[1]) <= 20
            /\ result[1] = SubSeq(candidates, 1, kept)

\* The part of a slug before its first "/": the whole slug when it has none.
firstSegment(slug) ==
    LET cuts == { i \in 1..Len(slug) : slug[i] = "/" }
    IN  IF cuts = {} THEN slug
        ELSE SubSeq(slug, 1, (CHOOSE i \in cuts : \A j \in cuts : i <= j) - 1)

nested(slug) == \E i \in 1..Len(slug) : slug[i] = "/"

\* C13 as stated: the category of every record is the front-matter category
\* when there is one, otherwise the first path segment of the slug, at the
\* root of the source tree as well as below it, and general only when the
\* slug gives no segment.
CategoryIsFrontmatterOrFirstSegment ==
    \A k \in 1..Len(docs) :
        LET given == markdownFiles[k].frontmatter.category
        IN  docs[k].category =
                IF given # << >> THEN given
                ELSE IF docs[k].slug # << >> THEN firstSegment(docs[k].slug)
                ELSE General

\* C13, amended: the category of every record is the front-matter category
\* when there is one; otherwise the first path segment of the slug when the
\* slug has more than one segment; otherwise, for a document at the root of
\* the source tree, general.
CategoryIsFrontmatterOrDirectory ==
    \A k \in 1..Len(docs) :
        LET given == markdownFiles[k].frontmatter.category
        IN  docs[k].category =
                IF given # << >> THEN given
                ELSE IF nested(docs[k].slug) THEN firstSegment(docs[k].slug)
                ELSE General

RootNestedAndGivenCategoryParsed ==
    /\ Len(docs) = 3
    /\ docs[1].slug = << "a" >> /\ docs[1].category = General
    /\ docs[2].slug = << "g", "/", "c" >> /\ docs[2].category = << "g" >>
    /\ docs[3].slug = << "t" >>
    /\ docs[3].category = << "c", "o", "n", "s", "t", "r", "u", "c", "t", "o", "r" >>

\* The number of whitespace-delimited tokens of a line: the places where a
\* run of non-blank characters starts.
tokensOfLine(line) ==
    Cardinality({ i \in 1..Len(line) :
                    line[i] # " " /\ (i = 1 \/ line[i - 1] = " ") })

\* The lines of a body that belong to no fenced block, a block being a fence
\* line, the lines up to the next fence line, and that line; the last block
\* runs to the end of the body when its fence is never closed.
linesOutsideBlocks(lines) ==
    LET spans == fenceSpans(lines, 1, << >>)
    IN  { i \in 1..Len(lines) :
            \A b \in 1..Len(spans) : i < spans[b].open \/ i > spans[b].close }

RECURSIVE tokensOfLines(_, _)
tokensOfLines(lines, rest) ==
    IF rest = {} THEN 0
    ELSE LET i == CHOOSE j \in rest : TRUE
         IN  tokensOfLine(lines[i]) + tokensOfLines(lines, rest \ {i})

\* C14: wordCount is the number of whitespace-delimited tokens of the body
\* outside the fenced blocks that codeExamples records, one per block, the
\* last block included when its fence is never closed: no token of a block
\* is counted.
WordCountSkipsCodeExamples ==
    pc = "parsed" =>
        /\ Len(doc[1].codeExamples) = Len(fenceSpans(file.lines, 1, << >>))
        /\ doc[1].wordCount
             = tokensOfLines(file.lines, linesOutsideBlocks(file.lines))

\* C15: the destination is left as it is, directory and files, until every
\* document of the corpus is parsed into a record; a parse that throws ends
\* the run with the destination as it was, and nothing is written after it.
NothingWrittenBeforeAllParsed ==
    /\ [][(pc \in { "start", "parse" } /\ dest' # dest) =>
             /\ pc = "parse"
             /\ Len(docs) = Len(markdownFiles)
             /\ \A k \in 1..Len(docs) : docs[k].path = markdownFiles[k].relativePath
             /\ ~thrown']_vars
    /\ [][(pc = "parse" /\ thrown') => (pc' = "failed" /\ dest' = dest)]_vars
    /\ [][pc = "failed" => dest' = dest]_vars
    /\ [](pc \in { "start", "parse" } => dest.files = << >>)

ParseThrewAfterOneRecord ==
    /\ pc = "failed"
    /\ thrown
    /\ Len(docs) = 1
    /\ Len(markdownFiles) = 3
    /\ dest = NoDest

\* The files the writes before the current position of the run go to, in the
\* order of the code: index.json, one file per document, search.json,
\* categories.json, routes.json, metadata.json.
recordFiles(n) == { docs[k].slug \o DotJson : k \in 1..n }

writtenBefore ==
    IF pc \in { "start", "parse", "index" } THEN {}
    ELSE IF pc = "docs" THEN { IndexJson } \cup recordFiles(next - 1)
    ELSE { IndexJson } \cup recordFiles(Len(docs)) \cup
         (IF pc = "categories" THEN { SearchJson }
          ELSE IF pc = "routes" THEN { SearchJson, CategoriesJson }
          ELSE IF pc = "metadata"
          THEN { SearchJson, CategoriesJson, RoutesJson }
          ELSE { SearchJson, CategoriesJson, RoutesJson, MetadataJson })

\* C16: when a write fails the run throws there; the files written before
\* it stay, each with the content it was given; the files that come later in
\* the write order are not written, at the failure or after it.
FailedWriteKeepsEarlierFilesOnly ==
    /\ [](pc # "failed" => DOMAIN dest.files = writtenBefore)
    /\ [][(pc \in WritePositions /\ thrown') =>
             /\ pc' = "failed"
             /\ \A f \in DOMAIN dest.files \ { pendingFile } :
                   f \in DOMAIN dest'.files /\ dest'.files[f] = dest.files[f]
             /\ DOMAIN dest'.files \subseteq DOMAIN dest.files \cup { pendingFile }]_vars
    /\ [][thrown => UNCHANGED dest]_vars

SecondRecordWriteFailed ==
    /\ pc = "failed"
    /\ Len(docs) = 2
    /\ next = 2
    /\ DOMAIN dest.files = { IndexJson, << "a", ".", "j", "s", "o", "n" >> }
    /\ dest.files[<< "a", ".", "j", "s", "o", "n" >>] = docs[1]
    /\ dest.files[IndexJson] = index

\* C17: a document whose header block cannot be parsed raises no error: the
\* run never throws at it, and its record, made with an empty front-matter,
\* is followed by the records of the documents after it.
MalformedHeaderIsProcessed ==
    /\ \A k \in 1..Len(docs) :
          markdownFiles[k].header = HeaderMalformed =>
              /\ docs[k].frontmatter = NoFrontmatter
              /\ docs[k].tags = << >>
    /\ (thrown /\ Len(docs) < Len(markdownFiles)) =>
          markdownFiles[Len(docs) + 1].header # HeaderMalformed

\* C18: no two of the files the scanner returns get the same slug.
SlugsAreDistinct ==
    pc = "listed" =>
        \A i, j \in 1..Len(result[1]) :
            i # j => slugOf(result[1][i].relativePath)
                        # slugOf(result[1][j].relativePath)

\* The entries of a directory tree that are documents: the files, not the
\* directories, whose name ends in ".md", reached from the root through
\* directories whose name neither starts with a dot nor is node_modules or
\* public.  Each is named by its path from the root.
excludedDirectory(name) ==
    \/ name[1] = "."
    \/ name = << "n", "o", "d", "e", "_", "m", "o", "d", "u", "l", "e", "s" >>
    \/ name = << "p", "u", "b", "l", "i", "c" >>

documentName(name) ==
    Len(name) >= 3 /\ SubSeq(name, Len(name) - 2, Len(name)) = << ".", "m", "d" >>

RECURSIVE documentsUnder(_, _)
documentsUnder(entries, prefix) ==
    UNION { LET e == entries[k]
                path == IF prefix = << >> THEN e.name
                        ELSE prefix \o << "/" >> \o e.name
            IN  IF e.isDirectory
                THEN IF excludedDirectory(e.name) THEN {}
                     ELSE documentsUnder(e.entries, path)
                ELSE IF documentName(e.name) THEN { path } ELSE {}
          : k \in 1..Len(entries) }

\* C19: getMarkdownFiles returns the documents of the tree, each once, and
\* nothing else: no directory, and no file under an excluded directory.
ScannerReturnsTheDocuments ==
    pc = "listed" =>
        LET found == result[1]
        IN  /\ { found[k].relativePath : k \in 1..Len(found) }
                 = documentsUnder(input, << >>)
            /\ \A i, j \in 1..Len(found) :
                  i # j => found[i].relativePath # found[j].relativePath
            /\ \A k \in 1..Len(found) : ~found[k].isDirectory

\* The routes routes.json lists: its endpoints, the route of each of its
\* categories and the route of each of its documents.
listedRoutes(routes) ==
    { routes.endpoints[k] : k \in 1..Len(routes.endpoints) }
        \cup { routes.categories[k].route : k \in 1..Len(routes.categories) }
        \cup { routes.documents[k].route : k \in 1..Len(routes.documents) }

\* C20: after a successful run the routes that routes.json lists are the
\* files the run wrote under the destination, served under /api/: every
\* file is listed and every listed route names a file that was written.
RoutesListTheGeneratedFiles ==
    pc = "done" =>
        listedRoutes(dest.files[RoutesJson])
            = { << "/", "a", "p", "i", "/" >> \o f : f \in DOMAIN dest.files }

\* C21: when a run started against an output directory that earlier runs have
\* written to has ended, the per-document files in the directory are those of
\* the documents of this run: each of its documents has its file, and no
\* other file than the five shared artifacts is there (the file of a document
\* that is no longer in the source is gone).
RecordFilesAreThoseOfTheLastRun ==
    pc = "done" =>
        /\ \A k \in 1..Len(docs) : docPath(docs[k]) \in DOMAIN dest.files
        /\ \A f \in DOMAIN dest.files \ SharedArtifacts :
              \E k \in 1..Len(docs) : f = docPath(docs[k])

\* The run before this one ended well and was given the documents this one
\* is given.
sameCorpusAgain ==
    /\ result # << >>
    /\ result[1].outcome = "done"
    /\ input = source

withoutTime(name, content) ==
    IF \E k \in 1..Len(docs) : docPath(docs[k]) = name THEN content
    ELSE IF name = IndexJson THEN [content EXCEPT !.metadata.generatedAt = 0]
    ELSE IF name \in { RoutesJson, MetadataJson }
    THEN [content EXCEPT !.generated = 0]
    ELSE content

linesOfText(text) ==
    { SubSeq(text, p[1], p[2]) :
        p \in { q \in (1..(Len(text) + 1)) \X (0..Len(text)) :
                  /\ q[1] <= q[2] + 1
                  /\ q[1] = 1 \/ text[q[1] - 1] = NL
                  /\ q[2] = Len(text) \/ text[q[2] + 1] = NL
                  /\ \A i \in q[1]..q[2] : text[i] # NL } }

\* The lines a body has inside its fenced blocks and nowhere else, the blank
\* line left aside.
codeOnlyLines(lines) ==
    LET spans == fenceSpans(lines, 1, << >>)
        inside == { i \in 1..Len(lines) :
                      \E b \in 1..Len(spans) :
                          spans[b].open < i /\ i < spans[b].close }
    IN  ({ lines[i] : i \in inside }
            \ { lines[i] : i \in linesOutsideBlocks(lines) }) \ { << >> }

\* C23: no contentPlain of a document's entry in the search artifact has a
\* line that the document has only inside its fenced code blocks, also when
\* a line inside a block reads as a heading.
SearchTextHasNoCodeLine ==
    pc = "parsed" =>
        LET sections == searchArtifact(doc)[1].sections
        IN  \A j \in 1..Len(sections) :
                linesOfText(sections[j].contentPlain)
                    \cap codeOnlyLines(file.lines) = {}

\* The k-th smallest member of a set of line numbers.
kthOf(S, k) == CHOOSE i \in S : Cardinality({ j \in S : j < i }) = k - 1

headingLinesIn(lines) == { i \in 1..Len(lines) : lines[i] \in HeadingLines }

\* C24: the lineNumber of the k-th section is the line of the k-th heading
\* in the file as it is on disk, counted from 1 and with the lines of the
\* header block counted, and the lineNumbers of a document's sections
\* increase strictly in document order.
LineNumberIsLineInSourceFile ==
    pc = "parsed" =>
        LET sections == doc[1].sections
        IN  /\ \A k \in 1..Len(sections) :
                  /\ k <= Cardinality(headingLinesIn(file.lines))
                  /\ sections[k].lineNumber =
                        headerLines(file) + kthOf(headingLinesIn(file.lines), k)
            /\ \A k \in 1..(Len(sections) - 1) :
                  sections[k].lineNumber < sections[k + 1].lineNumber

\* The lines from..to of a body, joined as code is.
codeOf(lines, from, to) ==
    IF to < from THEN << >> ELSE Join(SubSeq(lines, from, to))

\* C25: the codeBlocks of a section has one entry for each fenced block that
\* opens inside the section, in order, and none that starts at a closing
\* fence; the code of an entry is made of lines of the section only, the
\* lines that follow the opening fence.
SectionCodeBlocksStayInSection ==
    pc = "parsed" =>
        LET lines == file.lines
            sections == doc[1].sections
            spans == fenceSpans(lines, 1, << >>)
        IN  \A k \in 1..Len(sections) :
                LET last == sectionEnd(sections, k, lines)
                    opens == { i \in (sections[k].lineNumber + 1)..last :
                                 \E b \in 1..Len(spans) : spans[b].open = i }
                    blocks == sections[k].codeBlocks
                IN  /\ Len(blocks) = Cardinality(opens)
                    /\ \A j \in 1..Len(blocks) :
                          \E e \in kthOf(opens, j)..last :
                              blocks[j].code = codeOf(lines, kthOf(opens, j) + 1, e)

fenceLinesIn(lines) == { i \in 1..Len(lines) : lines[i] \in FenceLines }

\* C27: a body with F fence lines gives (F + 1) \div 2 blocks; the k-th block
\* holds the lines between the fence lines 2k-1 and 2k, joined unchanged, and
\* their number as lineCount, and has the info string of fence line 2k-1 as
\* language, plaintext when there is none; when F is odd the last block holds
\* the lines from the last fence line to the end of the body.
CodeBlocksPairFenceLines ==
    pc = "parsed" =>
        LET lines == file.lines
            F == fenceLinesIn(lines)
            blocks == doc[1].codeExamples
        IN  /\ Len(blocks) = (Cardinality(F) + 1) \div 2
            /\ \A k \in 1..Len(blocks) :
                  LET open == kthOf(F, 2 * k - 1)
                      close == IF 2 * k <= Cardinality(F) THEN kthOf(F, 2 * k)
                               ELSE Len(lines) + 1
                  IN  /\ blocks[k].code = codeOf(lines, open + 1, close - 1)
                      /\ blocks[k].lineCount = close - open - 1
                      /\ blocks[k].language =
                            IF lines[open] = Fence THEN Plaintext ELSE << "j", "s" >>

ThreeFenceLinesParsed ==
    /\ pc = "parsed"
    /\ file.lines = << Fence, LineText, LineFenceJs, LineFenceJs >>
    /\ Len(doc[1].codeExamples) = 2
    /\ doc[1].codeExamples[1].code = LineText
    /\ doc[1].codeExamples[2].lineCount = 0

\* C26: the sections divide the body after its first heading line: the k-th
\* section has as content the lines after the k-th heading line up to the
\* next heading line of any level, in order and joined unchanged, with only
\* the blank space at both ends taken off; the lines before the first
\* heading line are in no section, and every other line that is no heading
\* is in the content of one section, that of the nearest heading before it.
SectionsDivideTheBody ==
    pc = "parsed" =>
        LET lines == file.lines
            H == headingLinesIn(lines)
            sections == doc[1].sections
        IN  /\ Len(sections) = Cardinality(H)
            /\ \A k \in 1..Len(sections) :
                  LET from == kthOf(H, k) + 1
                      to == IF k < Cardinality(H) THEN kthOf(H, k + 1) - 1
                            ELSE Len(lines)
                  IN  sections[k].content = Trim(codeOf(lines, from, to))

PreambleAndSectionParsed ==
    /\ pc = "parsed"
    /\ file.lines = << LineText, LineH1, << >>, LineText >>
    /\ Len(doc[1].sections) = 1
    /\ doc[1].sections[1].content = LineText

\* C28: no write of a run goes to a path the run has written before, and the
\* file of a document is never one of the five shared artifacts, whatever
\* the documents are named.
WritesGoToFreshPaths ==
    /\ pc \in WritePositions => pendingFile \notin writtenBefore
    /\ \A k \in 1..Len(docs) : docPath(docs[k]) \notin SharedArtifacts

slugsOf(entries) == [j \in 1..Len(entries) |-> entries[j].slug]

\* C29: the categories artifact divides the documents of the run: under each
\* key are the documents of that category, each once and in the order of the
\* corpus, no key has an empty array, the keys are the categories that the
\* index of the run lists, and the arrays together have as many entries as
\* the index counts documents.
CategoriesDivideTheCorpus ==
    pc \in { "routes", "metadata", "done" } =>
        LET categories == dest.files[CategoriesJson]
            keys == { categories[c].name : c \in 1..Len(categories) }
        IN  /\ Cardinality(keys) = Len(categories)
            /\ \A c \in 1..Len(categories) :
                  /\ categories[c].docs # << >>
                  /\ slugsOf(categories[c].docs) =
                        slugsOf(SelectSeq(docs,
                            LAMBDA d : d.category = categories[c].name))
            /\ \A k \in 1..Len(docs) : docs[k].category \in keys
            /\ keys = { index.metadata.categories[c] :
                          c \in 1..Len(index.metadata.categories) }
            /\ sumOf([c \in 1..Len(categories) |-> Len(categories[c].docs)])
                  = index.total

TwoCategoriesThreeDocumentsWritten ==
    /\ pc = "done"
    /\ Len(docs) = 3
    /\ Len(dest.files[CategoriesJson]) = 2
    /\ Len(dest.files[CategoriesJson][1].docs) = 2

\* The sum of the values of a mapping to numbers.
RECURSIVE sumOver(_, _)
sumOver(f, rest) ==
    IF rest = {} THEN 0
    ELSE LET l == CHOOSE x \in rest : TRUE
         IN  f[l].value + sumOver(f, rest \ {l})

\* C30: the aggregates of a run agree: the index, the routes artifact and the
\* metadata artifact give the number of records as their number of
\* documents, and the same totals of words and of code examples, which are
\* the sums over the records; the counts of complexityDistribution add up to
\* the number of records, and the values of languageDistribution are counts
\* that add up to the total of code examples.
AggregatesAgree ==
    pc = "done" =>
        LET routes == dest.files[RoutesJson]
            metadata == dest.files[MetadataJson]
            words == sumOf([k \in 1..Len(docs) |-> docs[k].wordCount])
            examples == sumOf([k \in 1..Len(docs) |-> Len(docs[k].codeExamples)])
            tiers == metadata.complexityDistribution
            tally == metadata.languageDistribution
        IN  /\ index.total = Len(docs)
            /\ routes.stats.totalDocuments = Len(docs)
            /\ metadata.stats.totalDocs = Len(docs)
            /\ index.metadata.totalWords = words
            /\ routes.stats.totalWords = words
            /\ metadata.stats.totalWords = words
            /\ index.metadata.totalCodeExamples = examples
            /\ routes.stats.totalCodeExamples = examples
            /\ metadata.stats.totalCodeExamples = examples
            /\ tiers.beginner + tiers.intermediate + tiers.advanced = Len(docs)
            /\ \A l \in DOMAIN tally : tally[l].type = "number"
            /\ sumOver(tally, DOMAIN tally) = examples

=============================================================================
